---- MODULE Spec2Model ----
(***************************************************************************)
(* Model of the ingestion pipeline (app/routes/fileupload_routes.py,       *)
(* upload_excel_file), of product creation (app/routes/product_routes.py,  *)
(* create_product), of the column-configuration and document updates       *)
(* (app/routes/common_routes.py, product_routes.py) and of the list and    *)
(* search handlers (app/routes/search_routes.py, get_products,             *)
(* get_uploaded_files), of the insert, fetch and delete handlers           *)
(* (dynamic_insert, get_product, dynamic_delete, delete_product,           *)
(* delete_uploaded_file) and of the row validator (validate_excel_row).    *)
(*                                                                         *)
(* Strings that the code inspects character by character (form fields,     *)
(* the filename) are sequences of one-character strings.  A request        *)
(* handler is cut into one step per store or parser operation, so that a   *)
(* failure of that operation and the states between two operations are     *)
(* visible.  The update, list and search handlers make their store calls   *)
(* one after the other without another request in between mattering to     *)
(* what is stated about them, and are one step each; the variable call     *)
(* records what the step did.  JSON values of request bodies are records   *)
(* with a type tag t and a value v.                                        *)
(***************************************************************************)
EXTENDS Integers, Sequences, FiniteSets, TLC

VARIABLES
    up,                 \* upload request -> local state of upload_excel_file
    file_collection,    \* db.file_uploads: file_id -> job record
    data_collection,    \* db[data_collection_name]: one entry per insert_many
                        \* call, the documents that call wrote, in write order
    error_collection,   \* db.validation_errors, same shape
    job_updates,        \* file_id -> number of update_one calls applied to it
    cr,                 \* create request -> local state of create_product
    products,           \* mongo.db.products, the collection the requests
                        \* with the names "d", "p" name
    next_oid,           \* next ObjectId the store hands out
    columns_config,     \* mongo.db.columns_config
    cache,              \* the result cache: request -> cached payload
    table,              \* the collection the requests with other names
                        \* name
    call                \* the last request a one-step handler has served:
                        \* the request, what the handler computed from it,
                        \* the store calls it made and its response

vars == <<up, file_collection, data_collection, error_collection, job_updates,
          cr, products, next_oid, columns_config, cache, table, call>>

uploadVars == <<up, file_collection, data_collection, error_collection,
                job_updates>>

createVars == <<cr, products, next_oid>>

svcVars == <<columns_config, cache, table, call>>

(***************************************************************************)
(* Bounds                                                                  *)
(***************************************************************************)
\* longest row stream a file yields
MaxRows == 1200

\* upload requests and create requests that exist
NumUploads == 2

NumCreates == 2

UploadReqs == 1..NumUploads

CreateReqs == 1..NumCreates

(***************************************************************************)
(* Strings                                                                 *)
(***************************************************************************)
None == <<"None">>

SetMin(S) == CHOOSE x \in S : \A y \in S : x <= y

SetMax(S) == CHOOSE x \in S : \A y \in S : x >= y

\* str.strip()
strip(s) ==
    LET keep == {i \in 1..Len(s) : s[i] # " "}
    IN  IF keep = {} THEN <<>> ELSE SubSeq(s, SetMin(keep), SetMax(keep))

\* str.endswith(suffix)
endswith(s, suffix) ==
    /\ Len(s) >= Len(suffix)
    /\ SubSeq(s, Len(s) - Len(suffix) + 1, Len(s)) = suffix

Digits == {"0", "1", "2", "3", "4", "5", "6", "7", "8", "9"}

AllDigits(s) == \A i \in 1..Len(s) : s[i] \in Digits

DotXlsx == <<".", "x", "l", "s", "x">>

\* re.match(r"(.+?)(\d{4})_(.+?)_(.+?)_(\d{8})\.xlsx", filename): the pattern
\* is anchored at the start of the filename only.  a, b, c are the positions
\* of the three underscores that delimit the groups.
re_match(filename) ==
    \E a, b, c \in 1..Len(filename) :
        /\ a >= 6 /\ b >= a + 2 /\ c >= b + 2
        /\ filename[a] = "_" /\ filename[b] = "_" /\ filename[c] = "_"
        /\ AllDigits(SubSeq(filename, a - 4, a - 1))
        /\ Len(filename) >= c + 13
        /\ AllDigits(SubSeq(filename, c + 1, c + 8))
        /\ SubSeq(filename, c + 9, c + 13) = DotXlsx

(***************************************************************************)
(* Upload requests                                                         *)
(***************************************************************************)
GoodName == <<"B", "2", "0", "2", "6", "_", "J", "_", "M", "_",
              "2", "0", "2", "5", "1", "2", "1", "6", ".", "x", "l", "s", "x">>

\* the same name with the extension .xls
XlsName == SubSeq(GoodName, 1, Len(GoodName) - 1)

\* no character in front of the year
NoTitleName == SubSeq(GoodName, 2, Len(GoodName))

\* a seven-digit date
ShortDateName == SubSeq(GoodName, 1, 10) \o SubSeq(GoodName, 12, Len(GoodName))

\* no reviewer part
NoReviewerName == SubSeq(GoodName, 1, 7) \o SubSeq(GoodName, 10, Len(GoodName))

\* request.files.get("file"): None when the part is absent, else the
\* filename of the uploaded part (the empty filename makes the part falsy)
Files == {None, <<>>, GoodName, XlsName, NoTitleName, ShortDateName,
          NoReviewerName}

\* a form field: absent, empty, blank, or a name
FormValues == {None, <<>>, <<" ">>, <<"d", " ">>}

UploadRequests ==
    [file : Files, database : FormValues, data_collection : FormValues,
     uploadedBy : FormValues]

\* request.form.get(key, "")
form_get(value) == IF value = None THEN <<>> ELSE value

\* bool(file) of the uploaded part
file_present(file) == file # None /\ file # <<>>

\* the early returns without the filename pattern test
upload_rejected_no_pattern(request) ==
    \/ ~file_present(request.file)
    \/ strip(form_get(request.database)) = <<>>
    \/ strip(form_get(request.data_collection)) = <<>>
    \/ strip(form_get(request.uploadedBy)) = <<>>
    \/ ~endswith(request.file, DotXlsx)

\* lines 74-93: the three early returns of upload_excel_file
upload_rejected(request) ==
    \/ ~file_present(request.file)
    \/ strip(form_get(request.database)) = <<>>
    \/ strip(form_get(request.data_collection)) = <<>>
    \/ strip(form_get(request.uploadedBy)) = <<>>
    \/ ~endswith(request.file, DotXlsx)
    \/ ~re_match(request.file)

\* str(uuid.uuid4()): a fresh identifier per request
uuid4(r) == <<"uuid", r>>

(***************************************************************************)
(* The workbook                                                            *)
(***************************************************************************)
\* header rows a sheet can have; the second and third use the names of the
\* tag fields of a row record
HeaderRows == {<<"department", "amount">>,
               <<"department", "fileId">>,
               <<"rowNumber", "amount">>}

\* the value of the cell under header h in sheet row row_index
cell_value(h, row_index) ==
    CASE h = "department" -> <<"text", row_index>>
      [] h = "amount"     -> row_index
      [] h = "fileId"     -> <<"text", 0>>
      [] h = "rowNumber"  -> 1

\* dict(zip(headers, [cell.value for cell in row]))
row_data_of(headers, row_index) ==
    [h \in {headers[i] : i \in 1..Len(headers)} |-> cell_value(h, row_index)]

\* {**a, **b}: the keys of b override those of a
dict_merge(a, b) ==
    [k \in DOMAIN a \cup DOMAIN b |-> IF k \in DOMAIN b THEN b[k] ELSE a[k]]

utcnow == <<"utc", 0>>

batch_size == 500

\* the validation switched on: a row without an amount is in error
error_msg_validating(row_data) ==
    IF "amount" \in DOMAIN row_data THEN "" ELSE "Amount must be greater than zero"

\* lines 151-152: the call of validate_excel_row is commented out
error_msg(row_data) == ""

\* lines 156-161
row_error(file_id, row_index, msg) ==
    [fileId |-> file_id, rowNumber |-> row_index, error |-> msg,
     createdAt |-> utcnow]

\* lines 164-169: row_data is spread after the two tags, createdAt after it
row_record(file_id, row_index, row_data) ==
    dict_merge(dict_merge([fileId |-> file_id, rowNumber |-> row_index],
                          row_data),
               [createdAt |-> utcnow])

\* the threshold compared with > instead of >=
buffer_full_gt(buffer) == Len(buffer) > batch_size

\* the threshold test one row early
buffer_full_early(buffer) == Len(buffer) >= batch_size - 1

\* lines 171 and 175
buffer_full(buffer) == Len(buffer) >= batch_size

\* the status test with >= instead of >
final_status_ge(invalid) == IF invalid >= 0 THEN "failed" ELSE "compeleted"

\* line 188
final_status_of(invalid) == IF invalid > 0 THEN "failed" ELSE "compeleted"

\* insert_many(docs) appends the documents of one call
insert_many(collection, docs) == Append(collection, docs)

\* the documents of a collection, in write order
RECURSIVE documents(_)
documents(collection) ==
    IF collection = <<>> THEN <<>>
    ELSE documents(SubSeq(collection, 1, Len(collection) - 1))
             \o collection[Len(collection)]

(***************************************************************************)
(* upload_excel_file                                                       *)
(***************************************************************************)
NoRequest == [file |-> None, database |-> None, data_collection |-> None,
              uploadedBy |-> None]

\* the locals of one run of upload_excel_file; status_code 0: no response yet
UploadIdle ==
    [pc |-> "idle", request |-> NoRequest, status_code |-> 0,
     file_id |-> <<"uuid", 0>>, headers |-> <<>>,
     data_buffer |-> <<>>, error_buffer |-> <<>>,
     total |-> 0, valid |-> 0, invalid |-> 0, final_status |-> ""]

\* lines 69-109: read the form, validate it and the filename, draw the id
ReadForm(r, request) ==
    /\ up[r].pc = "idle"
    /\ IF upload_rejected(request)
       THEN up' = [up EXCEPT ![r].pc = "done", ![r].request = request,
                             ![r].status_code = 400]
       ELSE up' = [up EXCEPT ![r].pc = "insert_job", ![r].request = request,
                             ![r].file_id = uuid4(r)]
    /\ UNCHANGED <<file_collection, data_collection, error_collection,
                   job_updates, createVars, svcVars>>

\* lines 111-123: the job record as created
job_document(filename) ==
    [filename |-> filename, status |-> "uploading", totalRows |-> 0,
     validRows |-> 0, invalidRows |-> 0]

\* lines 111-123: file_collection.insert_one
InsertJob(r) ==
    /\ up[r].pc = "insert_job"
    /\ file_collection' =
         (up[r].file_id :> job_document(up[r].request.file)) @@ file_collection
    /\ job_updates' = (up[r].file_id :> 0) @@ job_updates
    /\ up' = [up EXCEPT ![r].pc = "load_workbook"]
    /\ UNCHANGED <<data_collection, error_collection, createVars, svcVars>>

\* lines 128-134: load_workbook, workbook.active
LoadWorkbook(r) ==
    /\ up[r].pc = "load_workbook"
    /\ up' = [up EXCEPT ![r].pc = "read_headers"]
    /\ UNCHANGED <<file_collection, data_collection, error_collection,
                   job_updates, createVars, svcVars>>

\* lines 136-145: the header row, then the empty buffers and zero counters
ReadHeaders(r, headers) ==
    /\ up[r].pc = "read_headers"
    /\ up' = [up EXCEPT ![r].pc = "next_row", ![r].headers = headers,
                        ![r].data_buffer = <<>>, ![r].error_buffer = <<>>,
                        ![r].total = 0, ![r].valid = 0, ![r].invalid = 0]
    /\ UNCHANGED <<file_collection, data_collection, error_collection,
                   job_updates, createVars, svcVars>>

\* lines 147-169: the stream yields one more row; count it and buffer either
\* a row error or a row record.  enumerate(..., start=2) numbers the rows.
ReadRow(r) ==
    /\ up[r].pc = "next_row"
    /\ up[r].total < MaxRows
    /\ LET row_index == up[r].total + 2
           row_data  == row_data_of(up[r].headers, row_index)
           msg       == error_msg(row_data)
       IN  IF msg # ""
           THEN up' = [up EXCEPT
                         ![r].pc = "flush_data",
                         ![r].total = @ + 1,
                         ![r].invalid = @ + 1,
                         ![r].error_buffer =
                             Append(@, row_error(up[r].file_id, row_index, msg))]
           ELSE up' = [up EXCEPT
                         ![r].pc = "flush_data",
                         ![r].total = @ + 1,
                         ![r].valid = @ + 1,
                         ![r].data_buffer =
                             Append(@, row_record(up[r].file_id, row_index,
                                                  row_data))]
    /\ UNCHANGED <<file_collection, data_collection, error_collection,
                   job_updates, createVars, svcVars>>

\* update_one({"_id": file_id}, {"$set": fields}): a no-op without a match
update_one(collection, file_id, fields) ==
    IF file_id \in DOMAIN collection
    THEN [collection EXCEPT ![file_id] = dict_merge(@, fields)]
    ELSE collection

\* a flush that also reports progress to the job record
FlushDataProgress(r) ==
    /\ up[r].pc = "flush_data"
    /\ IF buffer_full(up[r].data_buffer)
       THEN /\ data_collection' = insert_many(data_collection, up[r].data_buffer)
            /\ file_collection' =
                 update_one(file_collection, up[r].file_id,
                            [totalRows |-> up[r].total])
            /\ up' = [up EXCEPT ![r].pc = "flush_errors", ![r].data_buffer = <<>>]
       ELSE /\ up' = [up EXCEPT ![r].pc = "flush_errors"]
            /\ UNCHANGED <<data_collection, file_collection>>
    /\ UNCHANGED <<error_collection, job_updates, createVars, svcVars>>

\* lines 171-173
FlushData(r) ==
    /\ up[r].pc = "flush_data"
    /\ IF buffer_full(up[r].data_buffer)
       THEN /\ data_collection' = insert_many(data_collection, up[r].data_buffer)
            /\ up' = [up EXCEPT ![r].pc = "flush_errors", ![r].data_buffer = <<>>]
       ELSE /\ up' = [up EXCEPT ![r].pc = "flush_errors"]
            /\ UNCHANGED data_collection
    /\ UNCHANGED <<file_collection, error_collection, job_updates, createVars, svcVars>>

\* lines 175-177
FlushErrors(r) ==
    /\ up[r].pc = "flush_errors"
    /\ IF buffer_full(up[r].error_buffer)
       THEN /\ error_collection' =
                  insert_many(error_collection, up[r].error_buffer)
            /\ up' = [up EXCEPT ![r].pc = "next_row", ![r].error_buffer = <<>>]
       ELSE /\ up' = [up EXCEPT ![r].pc = "next_row"]
            /\ UNCHANGED error_collection
    /\ UNCHANGED <<file_collection, data_collection, job_updates, createVars, svcVars>>

\* line 147: the row stream is exhausted
EndOfRows(r) ==
    /\ up[r].pc = "next_row"
    /\ up' = [up EXCEPT ![r].pc = "rest_data"]
    /\ UNCHANGED <<file_collection, data_collection, error_collection,
                   job_updates, createVars, svcVars>>

\* lines 179-180: the remainder of the data buffer (the buffer is not cleared)
RestData(r) ==
    /\ up[r].pc = "rest_data"
    /\ IF up[r].data_buffer # <<>>
       THEN data_collection' = insert_many(data_collection, up[r].data_buffer)
       ELSE UNCHANGED data_collection
    /\ up' = [up EXCEPT ![r].pc = "rest_errors"]
    /\ UNCHANGED <<file_collection, error_collection, job_updates, createVars, svcVars>>

\* lines 182-183
RestErrors(r) ==
    /\ up[r].pc = "rest_errors"
    /\ IF up[r].error_buffer # <<>>
       THEN error_collection' =
                insert_many(error_collection, up[r].error_buffer)
       ELSE UNCHANGED error_collection
    /\ up' = [up EXCEPT ![r].pc = "update_job"]
    /\ UNCHANGED <<file_collection, data_collection, job_updates, createVars, svcVars>>

\* a handler that answers with the summary without the update of the job
UpdateJobSkipped(r) ==
    /\ up[r].pc = "update_job"
    /\ up' = [up EXCEPT ![r].pc = "done", ![r].status_code = 200,
                        ![r].final_status = final_status_of(up[r].invalid)]
    /\ UNCHANGED <<file_collection, job_updates, data_collection,
                   error_collection, createVars, svcVars>>

\* lines 188-209: the final status, the one update of the job, the summary
UpdateJob(r) ==
    /\ up[r].pc = "update_job"
    /\ LET final_status == final_status_of(up[r].invalid)
       IN  /\ file_collection' =
                 update_one(file_collection, up[r].file_id,
                            [status |-> final_status,
                             totalRows |-> up[r].total,
                             validRows |-> up[r].valid,
                             invalidRows |-> up[r].invalid])
           /\ up' = [up EXCEPT ![r].pc = "done", ![r].status_code = 200,
                               ![r].final_status = final_status]
    /\ job_updates' = [job_updates EXCEPT ![up[r].file_id] = @ + 1]
    /\ UNCHANGED <<data_collection, error_collection, createVars, svcVars>>

\* the steps of the try block that call the store or the parser
RaisingSteps == {"insert_job", "load_workbook", "read_headers", "next_row",
                 "update_job"}

\* an exception handler that marks the job as failed
RaiseMarksFailed(r) ==
    /\ up[r].pc \in RaisingSteps
    /\ up' = [up EXCEPT ![r].pc = "done", ![r].status_code = 500]
    /\ file_collection' =
         update_one(file_collection, up[r].file_id, [status |-> "failed"])
    /\ UNCHANGED <<data_collection, error_collection, job_updates, createVars, svcVars>>

\* lines 211-212: an operation raises before it has any effect
Raise(r) ==
    /\ up[r].pc \in RaisingSteps
    /\ up' = [up EXCEPT ![r].pc = "done", ![r].status_code = 500]
    /\ UNCHANGED <<file_collection, data_collection, error_collection,
                   job_updates, createVars, svcVars>>

\* how many documents of a batch an insert_many that raises has written:
\* none, or all but the last
partial_writes(buffer) == {0, Len(buffer) - 1}

\* lines 172, 176, 180, 183 with 211-212: an insert_many raises after it
\* has written part of the batch
InsertManyRaises(r) ==
    /\ \/ up[r].pc = "flush_data" /\ buffer_full(up[r].data_buffer)
       \/ up[r].pc = "rest_data" /\ up[r].data_buffer # <<>>
       \/ up[r].pc = "flush_errors" /\ buffer_full(up[r].error_buffer)
       \/ up[r].pc = "rest_errors" /\ up[r].error_buffer # <<>>
    /\ LET to_data == up[r].pc \in {"flush_data", "rest_data"}
           buffer  == IF to_data THEN up[r].data_buffer ELSE up[r].error_buffer
       IN  \E written \in partial_writes(buffer) :
               /\ data_collection' =
                    IF to_data /\ written > 0
                    THEN insert_many(data_collection,
                                     SubSeq(buffer, 1, written))
                    ELSE data_collection
               /\ error_collection' =
                    IF ~to_data /\ written > 0
                    THEN insert_many(error_collection,
                                     SubSeq(buffer, 1, written))
                    ELSE error_collection
    /\ up' = [up EXCEPT ![r].pc = "done", ![r].status_code = 500]
    /\ UNCHANGED <<file_collection, job_updates, createVars, svcVars>>

(***************************************************************************)
(* create_product                                                          *)
(***************************************************************************)
Skus == {"A1", "B2"}

\* the longest run of create requests: the store hands out MaxOids ids
MaxOids == 3

\* a complete request body with the given sku
body(sku) ==
    [database |-> <<"d">>, collection |-> <<" ", "p">>, category |-> "fashion",
     sku |-> sku, productName |-> "n", active |-> "true", country |-> "USA"]

without(d, key) == [k \in DOMAIN d \ {key} |-> d[k]]

\* request.get_json(): complete bodies, bodies with a required field missing
\* or empty, bodies with a blank or missing database or collection name
CreateBodies ==
    {body(sku) : sku \in Skus \cup {""}}
    \cup {without(body(sku), key) : sku \in Skus, key \in {"sku", "country"}}
    \cup {[body(sku) EXCEPT !.active = ""] : sku \in Skus}
    \cup {[body(sku) EXCEPT !.database = <<" ">>] : sku \in Skus}
    \cup {without(body(sku), "collection") : sku \in Skus}

\* dict.get(key, default)
dict_get(d, key, default) == IF key \in DOMAIN d THEN d[key] ELSE default

\* line 81
required_fields == <<"category", "sku", "productName", "active", "country">>

\* lines 82-84: some required field is missing or falsy
field_missing(data) ==
    \E i \in 1..Len(required_fields) :
        dict_get(data, required_fields[i], "") = ""

\* lines 87-96
product_doc_of(data) ==
    [category |-> data["category"], sku |-> data["sku"],
     productName |-> data["productName"],
     description |-> dict_get(data, "description", ""),
     active |-> data["active"], country |-> data["country"],
     productLabel |-> dict_get(data, "productLabel", None),
     createdAt |-> utcnow]

\* the duplicate check looking at the wrong field
find_one_category(collection, sku) ==
    \E i \in 1..Len(collection) : collection[i]["category"] = sku

\* collection.find_one({"sku": sku}) finds a document
find_one_sku(collection, sku) ==
    \E i \in 1..Len(collection) :
        "sku" \in DOMAIN collection[i] /\ collection[i]["sku"] = sku

\* the ObjectId the store assigns to the n-th inserted document
ObjectId(n) == <<"oid", n>>

\* collection.insert_one(doc): the store adds _id
insert_one(collection, doc, oid) ==
    Append(collection, dict_merge(doc, [_id |-> oid]))

\* mongo.cx[name] and db[name] raise InvalidName for the empty name
invalid_name(data) ==
    \/ strip(dict_get(data, "database", <<>>)) = <<>>
    \/ strip(dict_get(data, "collection", <<>>)) = <<>>

\* get_collection(), lines 9-13: the requests whose names are those of
\* mongo.db.products, the collection the product endpoints with an
\* identifier in the path work on
names_products(data) ==
    /\ strip(dict_get(data, "database", <<>>)) = <<"d">>
    /\ strip(dict_get(data, "collection", <<>>)) = <<"p">>

\* mongo.cx[database_name][collection_name]: the collection a request
\* names, mongo.db.products or the other one
named_collection(data) == IF names_products(data) THEN products ELSE table

CreateIdle ==
    [pc |-> "idle", data |-> [sku |-> ""], status_code |-> 0,
     inserted_id |-> None]

\* lines 74-100: read the body, check the required fields, build the
\* document, resolve the collection
ReadJson(c, data) ==
    /\ cr[c].pc \in {"idle", "done"}
    /\ next_oid <= MaxOids
    /\ cr' = [cr EXCEPT ![c] =
                [CreateIdle EXCEPT
                   !.data = data,
                   !.pc = IF field_missing(data) \/ invalid_name(data)
                          THEN "done" ELSE "find_one",
                   !.status_code = IF field_missing(data) THEN 400
                                   ELSE IF invalid_name(data) THEN 500
                                   ELSE 0]]
    /\ UNCHANGED <<products, next_oid, uploadVars, svcVars>>

\* lines 103-104: the duplicate check
FindOne(c) ==
    /\ cr[c].pc = "find_one"
    /\ IF find_one_sku(named_collection(cr[c].data), cr[c].data["sku"])
       THEN cr' = [cr EXCEPT ![c].pc = "done", ![c].status_code = 400]
       ELSE cr' = [cr EXCEPT ![c].pc = "insert_one"]
    /\ UNCHANGED <<products, next_oid, uploadVars, svcVars>>

\* an insert that repeats the duplicate check in the same store operation
InsertOneChecked(c) ==
    /\ cr[c].pc = "insert_one"
    /\ IF find_one_sku(named_collection(cr[c].data), cr[c].data["sku"])
       THEN /\ cr' = [cr EXCEPT ![c].pc = "done", ![c].status_code = 400]
            /\ UNCHANGED <<products, table, next_oid>>
       ELSE /\ IF names_products(cr[c].data)
               THEN /\ products' = insert_one(products,
                                              product_doc_of(cr[c].data),
                                              ObjectId(next_oid))
                    /\ UNCHANGED table
               ELSE /\ table' = insert_one(table, product_doc_of(cr[c].data),
                                           ObjectId(next_oid))
                    /\ UNCHANGED products
            /\ next_oid' = next_oid + 1
            /\ cr' = [cr EXCEPT ![c].pc = "done", ![c].status_code = 201,
                                ![c].inserted_id = ObjectId(next_oid)]
    /\ UNCHANGED <<uploadVars, columns_config, cache, call>>

\* lines 106-110: the insert and the answer
InsertOne(c) ==
    /\ cr[c].pc = "insert_one"
    /\ IF names_products(cr[c].data)
       THEN /\ products' = insert_one(products, product_doc_of(cr[c].data),
                                      ObjectId(next_oid))
            /\ UNCHANGED table
       ELSE /\ table' = insert_one(table, product_doc_of(cr[c].data),
                                   ObjectId(next_oid))
            /\ UNCHANGED products
    /\ next_oid' = next_oid + 1
    /\ cr' = [cr EXCEPT ![c].pc = "done", ![c].status_code = 201,
                        ![c].inserted_id = ObjectId(next_oid)]
    /\ UNCHANGED <<uploadVars, columns_config, cache, call>>

\* lines 112-113: find_one or insert_one raises
CreateRaises(c) ==
    /\ cr[c].pc \in {"find_one", "insert_one"}
    /\ cr' = [cr EXCEPT ![c].pc = "done", ![c].status_code = 500]
    /\ UNCHANGED <<products, next_oid, uploadVars, svcVars>>

\* no create request is between its duplicate check and its insert
NoCreateInFlight == \A c \in CreateReqs : cr[c].pc \in {"idle", "done"}

(***************************************************************************)
(* JSON values of request bodies                                           *)
(***************************************************************************)
\* a JSON value carries its Python type: isinstance and the type errors of
\* the handlers depend on it
JNull == [t |-> "null"]

JStr(chars) == [t |-> "str", v |-> chars]

JInt(n) == [t |-> "int", v |-> n]

JBool(b) == [t |-> "bool", v |-> b]

\* a JSON string that names a field or a mode: kept whole, it is only ever
\* compared or used as a key
JName(name) == [t |-> "name", v |-> name]

JList(items) == [t |-> "list", v |-> items]

JDict(d) == [t |-> "dict", v |-> d]

\* the dict without keys
EmptyDict == [k \in {} |-> JNull]

\* d.get(key) on a dict: None for an absent key
json_get(d, key) == IF key \in DOMAIN d THEN d[key] ELSE JNull

\* no one-step handler has served a request yet
NoCall == [op |-> "none", status_code |-> 0]

(***************************************************************************)
(* bulk_update_column_configs                                              *)
(***************************************************************************)
\* most items a bulk payload carries
MaxItems == 2

ColA == <<"a">>

ColB == <<"b">>

\* a column name no document has
ColC == <<"c">>

\* the columns_config collection the bulk updates run against
SampleColumns ==
    <<[columnName |-> ColA, isActive |-> TRUE],
      [columnName |-> ColB, isActive |-> FALSE]>>

\* the items of a payload: complete ones, ones with a key absent or null,
\* and one that is not an object
BulkItems ==
    {JDict([columnName |-> JStr(name), isActive |-> JBool(b)]) :
        name \in {ColA, ColC}, b \in {TRUE}}
    \cup {JDict([columnName |-> JStr(ColB), isActive |-> JBool(TRUE)]),
          JDict([columnName |-> JStr(ColA), isActive |-> JBool(FALSE)]),
          JDict([columnName |-> JStr(ColA)]),
          JDict([isActive |-> JBool(TRUE)]),
          JDict([columnName |-> JStr(ColB), isActive |-> JNull]),
          JStr(ColA)}

SeqsUpTo(S, n) == UNION {[1..k -> S] : k \in 0..n}

\* request.get_json() of the bulk endpoint: arrays of items, or an object
BulkPayloads ==
    {JList(items) : items \in SeqsUpTo(BulkItems, MaxItems)}
    \cup {JDict([columnName |-> JStr(ColA), isActive |-> JBool(TRUE)])}

\* lines 390-395: what the loop meets first when it reaches item i:
\* item.get on a value that is not a dict raises AttributeError; a missing
\* or null columnName or isActive is the 400 return
item_check(item) ==
    IF item.t # "dict" THEN "raise"
    ELSE IF json_get(item.v, "columnName") = JNull
            \/ json_get(item.v, "isActive") = JNull
         THEN "reject"
         ELSE "ok"

\* lines 390-403: the outcome of the validation loop: the check of the
\* first item that is not ok, or ok
RECURSIVE loop_outcome(_)
loop_outcome(items) ==
    IF items = <<>> THEN "ok"
    ELSE IF item_check(Head(items)) # "ok" THEN item_check(Head(items))
         ELSE loop_outcome(Tail(items))

\* lines 397-403: UpdateOne({"columnName": ..}, {"$set": {"isActive": ..}})
update_op(item) ==
    [columnName |-> item.v["columnName"].v, isActive |-> item.v["isActive"].v]

\* lines 389-403: bulk_ops, one operation per item, in input order
bulk_ops_of(items) == [i \in 1..Len(items) |-> update_op(items[i])]

\* the first document an UpdateOne filter matches, 0 when there is none
first_match(collection, column_name) ==
    LET hits == {i \in 1..Len(collection) :
                    collection[i]["columnName"] = column_name}
    IN  IF hits = {} THEN 0 ELSE SetMin(hits)

\* one UpdateOne without upsert applied to the collection
apply_update(collection, op) ==
    LET i == first_match(collection, op.columnName)
    IN  IF i = 0 THEN collection
        ELSE [collection EXCEPT ![i]["isActive"] = op.isActive]

\* bulk_write(ops), ordered: the collection after the operations, and the
\* matched and modified counts of the result
RECURSIVE bulk_write(_, _)
bulk_write(collection, ops) ==
    IF ops = <<>>
    THEN [collection |-> collection, matched_count |-> 0, modified_count |-> 0]
    ELSE LET after == apply_update(collection, Head(ops))
             rest  == bulk_write(after, Tail(ops))
         IN  [collection |-> rest.collection,
              matched_count |-> rest.matched_count
                  + (IF first_match(collection, Head(ops).columnName) = 0
                     THEN 0 ELSE 1),
              modified_count |-> rest.modified_count
                  + (IF after = collection THEN 0 ELSE 1)]

\* a handler that writes every operation as soon as its item is validated
BulkUpdateEager(updates) ==
    LET valid_prefix ==
            IF updates.t # "list" THEN <<>>
            ELSE SubSeq(updates.v, 1,
                        SetMax({k \in 0..Len(updates.v) :
                                   loop_outcome(SubSeq(updates.v, 1, k)) = "ok"}))
        result == bulk_write(columns_config, bulk_ops_of(valid_prefix))
        outcome == IF updates.t # "list" \/ updates.v = <<>> THEN "reject"
                   ELSE loop_outcome(updates.v)
    IN  /\ columns_config' = result.collection
        /\ call' = [op |-> "bulk_update", request |-> updates,
                    status_code |-> CASE outcome = "ok" -> 200
                                      [] outcome = "reject" -> 400
                                      [] outcome = "raise" -> 500,
                    bulk_writes |-> IF valid_prefix = <<>> THEN <<>>
                                    ELSE <<bulk_ops_of(valid_prefix)>>,
                    matched_count |-> result.matched_count,
                    modified_count |-> result.modified_count]
        /\ UNCHANGED <<uploadVars, createVars, cache, table>>

\* lines 382-414: bulk_update_column_configs with a bulk_write that succeeds
BulkUpdate(updates) ==
    /\ IF updates.t # "list" \/ updates.v = <<>>
       THEN /\ call' = [op |-> "bulk_update", request |-> updates,
                        status_code |-> 400, bulk_writes |-> <<>>,
                        matched_count |-> 0, modified_count |-> 0]
            /\ UNCHANGED columns_config
       ELSE IF loop_outcome(updates.v) # "ok"
       THEN /\ call' = [op |-> "bulk_update", request |-> updates,
                        status_code |->
                            IF loop_outcome(updates.v) = "reject"
                            THEN 400 ELSE 500,
                        bulk_writes |-> <<>>,
                        matched_count |-> 0, modified_count |-> 0]
            /\ UNCHANGED columns_config
       ELSE LET bulk_ops == bulk_ops_of(updates.v)
                result   == bulk_write(columns_config, bulk_ops)
            IN  /\ columns_config' = result.collection
                /\ call' = [op |-> "bulk_update", request |-> updates,
                            status_code |-> 200,
                            bulk_writes |-> <<bulk_ops>>,
                            matched_count |-> result.matched_count,
                            modified_count |-> result.modified_count]
    /\ UNCHANGED <<uploadVars, createVars, cache, table>>

\* lines 406 with 413-414: bulk_write raises after it has applied the first
\* applied operations of the batch
BulkWriteRaises(updates, applied) ==
    /\ updates.t = "list" /\ updates.v # <<>>
    /\ loop_outcome(updates.v) = "ok"
    /\ applied \in 0..(Len(updates.v) - 1)
    /\ LET bulk_ops == bulk_ops_of(updates.v)
           result   == bulk_write(columns_config, SubSeq(bulk_ops, 1, applied))
       IN  /\ columns_config' = result.collection
           /\ call' = [op |-> "bulk_update", request |-> updates,
                       status_code |-> 500, bulk_writes |-> <<bulk_ops>>,
                       matched_count |-> 0, modified_count |-> 0]
    /\ UNCHANGED <<uploadVars, createVars, cache, table>>

(***************************************************************************)
(* Python conversions and the store's matching                             *)
(***************************************************************************)
JFloat(hundredths) == [t |-> "float", v |-> hundredths]

DigitChars == <<"0", "1", "2", "3", "4", "5", "6", "7", "8", "9">>

digit_value(c) == (CHOOSE i \in 1..10 : DigitChars[i] = c) - 1

RECURSIVE digits_value(_)
digits_value(chars) ==
    IF chars = <<>> THEN 0
    ELSE 10 * digits_value(SubSeq(chars, 1, Len(chars) - 1))
             + digit_value(chars[Len(chars)])

\* the literal without its sign
unsigned(chars) ==
    IF chars # <<>> /\ chars[1] \in {"+", "-"} THEN Tail(chars) ELSE chars

sign_of(chars) == IF chars # <<>> /\ chars[1] = "-" THEN -1 ELSE 1

\* the strings int() accepts: blanks around an optional sign and digits
int_literal(chars) ==
    LET digits == unsigned(strip(chars))
    IN  digits # <<>> /\ AllDigits(digits)

\* the strings float() accepts among those written with digits, a sign and
\* points: one point at most and a digit somewhere
float_literal(chars) ==
    LET digits   == unsigned(strip(chars))
        points == {i \in 1..Len(digits) : digits[i] = "."}
    IN  /\ Cardinality(points) <= 1
        /\ \E i \in 1..Len(digits) : digits[i] \in Digits
        /\ \A i \in 1..Len(digits) : digits[i] \in Digits \cup {"."}

\* float(chars) in hundredths, for literals of at most two decimals
float_value(chars) ==
    LET digits   == unsigned(strip(chars))
        points == {i \in 1..Len(digits) : digits[i] = "."}
        dot    == IF points = {} THEN Len(digits) + 1 ELSE SetMin(points)
        whole  == SubSeq(digits, 1, dot - 1)
        frac   == SubSeq(digits, dot + 1, Len(digits))
        cents  == IF Len(frac) = 0 THEN 0
                  ELSE IF Len(frac) = 1 THEN 10 * digits_value(frac)
                  ELSE digits_value(SubSeq(frac, 1, 2))
    IN  sign_of(strip(chars)) * (100 * digits_value(whole) + cents)

int_value(chars) ==
    sign_of(strip(chars)) * digits_value(unsigned(strip(chars)))

\* int(x) of a JSON value: the integer, or the exception it raises
py_int(x) ==
    CASE x.t = "int"   -> [ok |-> TRUE, v |-> x.v]
      [] x.t = "bool"  -> [ok |-> TRUE, v |-> IF x.v THEN 1 ELSE 0]
      [] x.t = "float" -> [ok |-> TRUE,
                           v |-> IF x.v >= 0 THEN x.v \div 100
                                 ELSE -((-x.v) \div 100)]
      [] x.t = "str"   -> IF int_literal(x.v)
                          THEN [ok |-> TRUE, v |-> int_value(x.v)]
                          ELSE [ok |-> FALSE, v |-> 0]
      [] OTHER         -> [ok |-> FALSE, v |-> 0]

\* bool(x) of a JSON value
truthy(x) ==
    CASE x.t = "null"  -> FALSE
      [] x.t = "bool"  -> x.v
      [] x.t = "int"   -> x.v # 0
      [] x.t = "float" -> x.v # 0
      [] x.t = "str"   -> x.v # <<>>
      [] x.t = "name"  -> x.v # ""
      [] x.t = "list"  -> x.v # <<>>
      [] x.t = "dict"  -> DOMAIN x.v # {}

\* str(n) for 0 <= n <= 99
int_chars(n) ==
    IF n < 10 THEN <<DigitChars[n + 1]>>
    ELSE <<DigitChars[(n \div 10) + 1], DigitChars[(n % 10) + 1]>>

\* f"{x}" of a string or a small non-negative integer
format(x) == IF x.t = "str" THEN x.v ELSE int_chars(x.v)

UpperChars == <<"A", "B", "C", "D", "E", "F", "G", "H", "I", "J", "K", "L",
                "M", "N", "O", "P", "Q", "R", "S", "T", "U", "V", "W", "X",
                "Y", "Z">>

LowerChars == <<"a", "b", "c", "d", "e", "f", "g", "h", "i", "j", "k", "l",
                "m", "n", "o", "p", "q", "r", "s", "t", "u", "v", "w", "x",
                "y", "z">>

lower_char(c) ==
    IF \E i \in 1..26 : UpperChars[i] = c
    THEN LowerChars[CHOOSE i \in 1..26 : UpperChars[i] = c]
    ELSE c

\* str.lower()
lower(chars) == [i \in 1..Len(chars) |-> lower_char(chars[i])]

\* the atoms of a regular expression written with literals, the wildcard
\* "." and the postfix "*": each atom is a character and whether it is
\* starred
RECURSIVE regex_atoms(_)
regex_atoms(pattern) ==
    IF pattern = <<>> THEN <<>>
    ELSE IF Len(pattern) >= 2 /\ pattern[2] = "*"
         THEN <<[c |-> pattern[1], star |-> TRUE]>>
                  \o regex_atoms(SubSeq(pattern, 3, Len(pattern)))
         ELSE <<[c |-> pattern[1], star |-> FALSE]>>
                  \o regex_atoms(Tail(pattern))

\* an atom matches a character, with the option i
atom_matches(atom, c) == atom.c = "." \/ lower_char(atom.c) = lower_char(c)

\* the atoms from the i-th on match text from position j on
RECURSIVE match_here(_, _, _, _)
match_here(atoms, i, text, j) ==
    IF i > Len(atoms) THEN TRUE
    ELSE IF atoms[i].star
         THEN \/ match_here(atoms, i + 1, text, j)
              \/ /\ j <= Len(text)
                 /\ atom_matches(atoms[i], text[j])
                 /\ match_here(atoms, i, text, j + 1)
         ELSE /\ j <= Len(text)
              /\ atom_matches(atoms[i], text[j])
              /\ match_here(atoms, i + 1, text, j + 1)

\* {"$regex": pattern, "$options": "i"} on a string: an unanchored search,
\* anchored at the start by a leading "^"
regex_search(pattern, text) ==
    IF pattern # <<>> /\ pattern[1] = "^"
    THEN match_here(regex_atoms(Tail(pattern)), 1, text, 1)
    ELSE \E start \in 1..(Len(text) + 1) :
             match_here(regex_atoms(pattern), 1, text, start)

\* a store predicate maps field names to conditions
Regex(pattern) == [k |-> "regex", pattern |-> pattern]

Equals(value) == [k |-> "eq", value |-> value]

is_number(x) == x.t \in {"int", "float"}

\* a number in hundredths
hundredths(x) == IF x.t = "int" THEN 100 * x.v ELSE x.v

\* the store's equality: numbers compare by value, everything else by type
\* and value
value_equals(a, b) ==
    IF is_number(a) /\ is_number(b) THEN hundredths(a) = hundredths(b)
    ELSE a.t = b.t /\ a.t # "null" /\ a.v = b.v

\* a document satisfies the condition on one field
field_matches(doc, key, condition) ==
    /\ key \in DOMAIN doc
    /\ IF condition.k = "regex"
       THEN doc[key].t = "str" /\ regex_search(condition.pattern.v, doc[key].v)
       ELSE value_equals(doc[key], condition.value)

doc_matches(doc, query) == \A key \in DOMAIN query : field_matches(doc, key, query[key])

\* the store refuses a $regex whose pattern is not a string
query_invalid(query) ==
    \E key \in DOMAIN query :
        query[key].k = "regex" /\ query[key].pattern.t # "str"

\* the documents of the sequence that satisfy the predicate
RECURSIVE select_seq(_, _)
select_seq(seq, query) ==
    IF seq = <<>> THEN <<>>
    ELSE IF doc_matches(Head(seq), query)
         THEN <<Head(seq)>> \o select_seq(Tail(seq), query)
         ELSE select_seq(Tail(seq), query)

\* collection.find(query): the matching documents in natural order
find(collection, query) == select_seq(collection, query)

\* collection.count_documents(query)
count_documents(collection, query) == Len(find(collection, query))

\* cursor.skip(n).limit(m): limit(0) is no limit
skip_limit(docs, n, m) ==
    SubSeq(docs, n + 1, IF m = 0 THEN Len(docs)
                        ELSE IF n + m < Len(docs) THEN n + m ELSE Len(docs))

\* the position a document takes in the sort on the field: the number of
\* documents that come before it (ties keep the natural order)
sort_rank(docs, i, field, direction) ==
    Cardinality({j \in 1..Len(docs) :
        \/ direction * hundredths(docs[j][field])
               < direction * hundredths(docs[i][field])
        \/ /\ hundredths(docs[j][field]) = hundredths(docs[i][field])
           /\ j < i}) + 1

\* cursor.sort([(field, direction)]) on a numeric field
sort_docs(docs, field, direction) ==
    [r \in 1..Len(docs) |->
        docs[CHOOSE i \in 1..Len(docs) :
                 sort_rank(docs, i, field, direction) = r]]

\* a projection: None, or {field: 1, ...} for a set of fields
NoProjection == [none |-> TRUE, fields |-> {}]

Projection(fields) == [none |-> FALSE, fields |-> fields]

\* find's projection: with None the whole document, else the named fields
\* and _id
project(doc, projection) ==
    IF projection.none THEN doc
    ELSE [k \in (DOMAIN doc) \cap (projection.fields \cup {"_id"}) |-> doc[k]]

HexChars == <<"0", "1", "2", "3", "4", "5", "6", "7", "8", "9",
              "a", "b", "c", "d", "e", "f">>

\* str(ObjectId): the 24 hexadecimal digits of the identifier, for the
\* identifiers below 256
str_oid(oid) ==
    [i \in 1..24 |-> IF i = 24 THEN HexChars[(oid[2] % 16) + 1]
                     ELSE IF i = 23 THEN HexChars[(oid[2] \div 16) + 1]
                     ELSE "0"]

\* ObjectId.is_valid(chars): 24 hexadecimal digits
is_valid(chars) ==
    /\ Len(chars) = 24
    /\ \A i \in 1..24 : \E h \in 1..16 : HexChars[h] = lower_char(chars[i])

hex_digit(c) == (CHOOSE h \in 1..16 : HexChars[h] = lower_char(c)) - 1

\* ObjectId(chars) of a valid string whose leading 22 digits are 0
ObjectId_of(chars) == ObjectId(16 * hex_digit(chars[23]) + hex_digit(chars[24]))

\* lines 108-109, 274-275: the documents of a response, projected and with
\* _id as a string
response_docs(docs, projection) ==
    [i \in 1..Len(docs) |->
        [project(docs[i], projection) EXCEPT !["_id"] = str_oid(@)]]

(***************************************************************************)
(* The query handlers                                                      *)
(***************************************************************************)
\* most entries the result cache holds before the model stops admitting
\* requests that would add one
MaxCached == 1

NameMy == <<"M", "y", " ", "T", "e", "s", "t", " ", "P", "r", "o", "d", "u", "c", "t">>

NameTest == <<"T", "e", "s", "t">>

NameTent == <<"m", "y", " ", "t", "e", "n", "t">>

NameToast == <<"t", "o", "a", "s", "t">>

\* the collection the query requests name: four documents in insertion order
SampleTable ==
    <<[_id |-> ObjectId(1), productName |-> JStr(NameMy), price |-> JInt(5),
       createdAt |-> JInt(1)],
      [_id |-> ObjectId(2), productName |-> JStr(NameTest),
       price |-> JFloat(550), createdAt |-> JInt(2)],
      [_id |-> ObjectId(3), productName |-> JStr(NameTent), price |-> JInt(7),
       createdAt |-> JInt(3)],
      [_id |-> ObjectId(4), productName |-> JStr(NameToast), price |-> JInt(9),
       createdAt |-> JInt(4)]>>

\* a request body that names the sample collection
QueryBase == [database |-> JStr(<<"d">>), collection |-> JStr(<<" ", "t">>)]

\* d | extra: extra's keys win
with(d, extra) == dict_merge(d, extra)

\* data.get(key, default)
json_get_or(d, key, default) == IF key \in DOMAIN d THEN d[key] ELSE default

\* the handlers read the names with .get(name, "").strip(): a value that is
\* not a string has no strip
names_not_strings(data) ==
    \E key \in {"database", "collection"} :
        key \in DOMAIN data /\ data[key].t # "str"

\* not database_name or not collection_name
names_empty(data) ==
    \E key \in {"database", "collection"} :
        strip(json_get_or(data, key, JStr(<<>>)).v) = <<>>

\* {field: 1 for field in fields} if fields else None
projection_of(fields) ==
    IF truthy(fields)
    THEN Projection({fields.v[i].v : i \in 1..Len(fields.v)})
    ELSE NoProjection

\* what a query handler did with a request that it answered without
\* building a predicate
QueryCall(op, data, status_code) ==
    [op |-> op, request |-> data, status_code |-> status_code,
     cache_hit |-> FALSE, cache_reads |-> 0, store_reads |-> 0,
     query_built |-> FALSE, query |-> EmptyDict,
     skip |-> 0, limit |-> 0, sort_clause |-> <<>>,
     count |-> 0, data |-> <<>>]

\* the payload of a response
payload_of(c) == [count |-> c.count, data |-> c.data]

(***************************************************************************)
(* search_for_name                                                         *)
(***************************************************************************)
\* the requests of the name search
SearchRequests ==
    {QueryBase, without(QueryBase, "database")}
    \cup {with(QueryBase, [page |-> JInt(p), page_records |-> JInt(n)]) :
              p \in 1..2, n \in 1..2}
    \cup {with(QueryBase, [page |-> page]) :
              page \in {JInt(0), JNull}}
    \cup {with(QueryBase, [productName |-> v]) :
              v \in {JStr(NameTest), JStr(<<"m", "y">>),
                     JStr(<<"T", ".", "s", "t">>), JStr(<<>>), JNull}}
    \cup {with(QueryBase, [productName |-> JStr(<<"m", "y">>),
                           fields |-> JList(<<JName("price")>>)]),
          with(QueryBase, [productName |-> JStr(<<"m", "y">>),
                           page_records |-> JInt(1)]),
          with(QueryBase, [price |-> JInt(5)]),
          with(QueryBase, [sort |-> JStr(<<"a", "s", "c">>)])}

\* line 95: the keys the comprehension leaves out
search_reserved == {"database", "collection", "page", "page_records", "fields"}

\* line 95
search_query(data) ==
    [k \in {key \in DOMAIN data : truthy(data[key]) /\ key \notin search_reserved}
        |-> Regex(JStr(<<"^">> \o format(data[k])))]

\* get_cached_search_results(data): the payload stored under the request, as
\* a sequence of one payload, or of none when the cache has no entry
get_cached_search_results(data) ==
    IF data \in DOMAIN cache THEN <<cache[data]>> ELSE <<>>

\* cache_search_results(data, response_data)
cache_search_results(data, response_data) == (data :> response_data) @@ cache

\* lines 95-111: the request served from the store
search_from_store(data, page, page_records) ==
    LET query   == search_query(data)
        skip    == (page - 1) * page_records
        results == response_docs(
                       skip_limit(find(table, query), skip, page_records),
                       projection_of(json_get_or(data, "fields", JList(<<>>))))
    IN  [QueryCall("search_for_name", data, 200) EXCEPT
            !.cache_reads = 1, !.store_reads = 1,
            !.query_built = TRUE, !.query = query,
            !.skip = skip, !.limit = page_records,
            !.count = Len(results), !.data = results]

\* the name search that never looks into the cache
SearchForNameNoCache(data) ==
    LET page         == py_int(json_get_or(data, "page", JInt(1)))
        page_records == py_int(json_get_or(data, "page_records", JInt(1000)))
    IN  /\ data \in DOMAIN cache \/ Cardinality(DOMAIN cache) < MaxCached
        /\ IF names_not_strings(data) \/ ~page.ok \/ ~page_records.ok
           THEN call' = QueryCall("search_for_name", data, 500) /\ cache' = cache
           ELSE IF names_empty(data)
           THEN call' = QueryCall("search_for_name", data, 400) /\ cache' = cache
           ELSE IF (page.v - 1) * page_records.v < 0
           THEN /\ call' = [QueryCall("search_for_name", data, 500) EXCEPT
                               !.query_built = TRUE, !.query = search_query(data)]
                /\ cache' = cache
           ELSE LET served == search_from_store(data, page.v, page_records.v)
                IN  /\ call' = [served EXCEPT !.cache_reads = 0]
                    /\ cache' = cache_search_results(data, payload_of(served))
        /\ UNCHANGED <<uploadVars, createVars, columns_config, table>>

\* search_for_name, lines 78-119
SearchForName(data) ==
    LET page         == py_int(json_get_or(data, "page", JInt(1)))
        page_records == py_int(json_get_or(data, "page_records", JInt(1000)))
        cached       == get_cached_search_results(data)
    IN  /\ data \in DOMAIN cache \/ Cardinality(DOMAIN cache) < MaxCached
        /\ IF names_not_strings(data) \/ ~page.ok \/ ~page_records.ok
           THEN call' = QueryCall("search_for_name", data, 500) /\ cache' = cache
           ELSE IF names_empty(data)
           THEN call' = QueryCall("search_for_name", data, 400) /\ cache' = cache
           ELSE IF cached # <<>>
           THEN /\ call' = [QueryCall("search_for_name", data, 200) EXCEPT
                               !.cache_hit = TRUE, !.cache_reads = 1,
                               !.count = cached[1].count,
                               !.data = cached[1].data]
                /\ cache' = cache
           ELSE IF (page.v - 1) * page_records.v < 0
           THEN \* cursor.skip raises ValueError for a negative skip
                /\ call' = [QueryCall("search_for_name", data, 500) EXCEPT
                               !.cache_reads = 1,
                               !.query_built = TRUE, !.query = search_query(data)]
                /\ cache' = cache
           ELSE LET served == search_from_store(data, page.v, page_records.v)
                IN  /\ call' = served
                    /\ cache' = cache_search_results(data, payload_of(served))
        /\ UNCHANGED <<uploadVars, createVars, columns_config, table>>

\* the store fails while search_for_name reads it: the handler answers 500
\* and writes nothing to the cache
SearchStoreRaises(data) ==
    /\ ~names_not_strings(data) /\ ~names_empty(data)
    /\ py_int(json_get_or(data, "page", JInt(1))).ok
    /\ py_int(json_get_or(data, "page_records", JInt(1000))).ok
    /\ get_cached_search_results(data) = <<>>
    /\ call' = [QueryCall("search_for_name", data, 500) EXCEPT
                   !.cache_reads = 1, !.store_reads = 1,
                   !.query_built = TRUE, !.query = search_query(data)]
    /\ UNCHANGED <<uploadVars, createVars, columns_config, table, cache>>

(***************************************************************************)
(* get_table_data                                                          *)
(***************************************************************************)
Text(search_by) == JDict([data_type |-> JName("text"), search_by |-> search_by])

Number(search_by) ==
    JDict([data_type |-> JName("number"), search_by |-> search_by])

Exact(search_by) == JDict([data_type |-> JName("exact"), search_by |-> search_by])

SortBy(field, direction) ==
    JDict([sort_by |-> JName(field), direction |-> direction])

\* the search_by values of the number predicates
NumberValues ==
    {JStr(<<"5">>), JStr(<<"5", ".", "5">>), JStr(<<"5", ".", "0">>),
     JStr(<<"a", "b", "c">>), JStr(<<"1", ".", "2", ".", "3">>), JInt(5)}

\* the directions of the sort requests
Directions ==
    {JStr(<<"a", "s", "c">>), JStr(<<"A", "S", "C">>), JStr(<<"A", "s", "c">>),
     JStr(<<"d", "e", "s", "c">>), JStr(<<"D", "E", "S", "C">>),
     JStr(<<"D", "e", "s", "c">>), JStr(<<"u", "p">>), JStr(<<>>)}

\* the requests of the table-data search
TableRequests ==
    {QueryBase, without(QueryBase, "database"),
     with(QueryBase, [collection |-> JStr(<<"q">>)])}
    \cup {with(QueryBase, [page |-> JInt(p), page_records |-> JInt(n)]) :
              p \in 0..3, n \in 1..2}
    \cup {with(QueryBase, [price |-> Number(v)]) : v \in NumberValues}
    \cup {with(QueryBase, [productName |-> v]) :
              v \in {JStr(NameTest), JStr(<<"T", ".", "s", "t">>), JStr(<<>>),
                     JNull, Text(JStr(<<"m", "y">>)), Text(JNull),
                     Exact(JStr(NameTest))}}
    \cup {with(QueryBase, [price |-> JInt(7)]),
          with(QueryBase, [price |-> JStr(<<>>)])}
    \cup {with(QueryBase, [sort |-> SortBy("price", d)]) : d \in Directions}
    \cup {with(QueryBase, [sort |-> JDict([sort_by |-> JName("price")])]),
          with(QueryBase, [sort |-> JDict([direction |-> JStr(<<"d", "e", "s", "c">>)])]),
          with(QueryBase, [sort |-> JDict([sort_by |-> JName("price"),
                                           direction |-> JNull])])}
    \cup {with(QueryBase, [productName |-> JStr(<<"m", "y">>)]),
          with(QueryBase, [productName |-> JStr(<<"m", "y">>),
                           fields |-> JList(<<JName("price")>>)]),
          with(QueryBase, [productName |-> JStr(<<"m", "y">>),
                           page_records |-> JInt(1)]),
          with(QueryBase, [productName |-> JStr(<<"m", "y">>),
                           page |-> JInt(2), page_records |-> JInt(1)])}
    \cup {with(QueryBase,
               [filters |-> JDict([page |-> JInt(1), fields |-> JStr(<<"x">>),
                                   sort |-> JStr(<<"x">>),
                                   productName |-> JStr(NameTest)])]),
          with(QueryBase, [filters |-> JList(<<>>),
                           productName |-> JStr(NameTest)])}

\* the keys the loop skips, without sort
table_reserved_no_sort ==
    {"database", "collection", "page", "page_records", "fields"}

\* line 223: the keys the loop skips
table_reserved ==
    {"database", "collection", "page", "page_records", "fields", "sort"}

\* line 216: data.get("filters", data)
filters_of(data) == IF "filters" \in DOMAIN data THEN data["filters"] ELSE JDict(data)

\* line 237: float(search_value) if "." in search_value else int(search_value),
\* for a string: the number, or ValueError
coerce_number(chars) ==
    IF \E i \in 1..Len(chars) : chars[i] = "."
    THEN IF float_literal(chars)
         THEN [ok |-> TRUE, v |-> JFloat(float_value(chars))]
         ELSE [ok |-> FALSE, v |-> JNull]
    ELSE IF int_literal(chars)
         THEN [ok |-> TRUE, v |-> JInt(int_value(chars))]
         ELSE [ok |-> FALSE, v |-> JNull]

\* lines 226-246: what one filter entry does: it sets a condition, it is
\* left out, or it raises an exception that line 237 does not catch
predicate_of(value) ==
    LET data_type    == json_get_or(value.v, "data_type", JName("text"))
        search_value == json_get(value.v, "search_by")
        Set(cond)    == [kind |-> "set", cond |-> cond]
        Left         == [kind |-> "left", cond |-> Equals(JNull)]
        Raised       == [kind |-> "raise", cond |-> Equals(JNull)]
    IN  IF value.t = "dict"
        THEN IF search_value.t = "null" THEN Left
             ELSE IF data_type = JName("text")
             THEN Set(Regex(JStr(<<".", "*">> \o format(search_value)
                                     \o <<".", "*">>)))
             ELSE IF data_type = JName("number")
             THEN IF search_value.t # "str" THEN Raised
                  ELSE IF coerce_number(search_value.v).ok
                       THEN Set(Equals(coerce_number(search_value.v).v))
                       ELSE Left
             ELSE IF data_type = JName("exact") THEN Set(Equals(search_value))
             ELSE Left
        ELSE IF value.t = "null" THEN Left
        ELSE IF value.t = "str"
        THEN Set(Regex(JStr(<<".", "*">> \o value.v \o <<".", "*">>)))
        ELSE Set(Equals(value))

\* lines 220-246: the filter entries the loop looks at
table_filter_keys(data) ==
    IF filters_of(data).t = "dict"
    THEN DOMAIN filters_of(data).v \ table_reserved
    ELSE {}

\* the loop raises at some entry
table_query_raises(data) ==
    \E key \in table_filter_keys(data) :
        predicate_of(filters_of(data).v[key]).kind = "raise"

\* lines 219-246
table_query(data) ==
    [k \in {key \in table_filter_keys(data) :
                predicate_of(filters_of(data).v[key]).kind = "set"}
        |-> predicate_of(filters_of(data).v[k]).cond]

\* line 255: the sample collection is the only one of its database
collection_exists(data) == strip(data["collection"].v) = <<"t">>

\* lines 264-266: sort_data.get and direction.lower() need a dict and a string
sort_raises(sort_data) ==
    \/ sort_data.t # "dict"
    \/ /\ truthy(json_get(sort_data.v, "sort_by"))
       /\ json_get_or(sort_data.v, "direction", JStr(<<"a", "s", "c">>)).t # "str"

\* line 265
direction_of(sort_data) ==
    IF lower(json_get_or(sort_data.v, "direction", JStr(<<"a", "s", "c">>)).v)
           = <<"a", "s", "c">>
    THEN 1 ELSE -1

\* lines 263-266
sort_clause_of(sort_data) ==
    IF truthy(json_get(sort_data.v, "sort_by"))
    THEN <<[field |-> sort_data.v["sort_by"].v,
            direction |-> direction_of(sort_data)]>>
    ELSE <<>>

\* lines 269-271: the cursor, sorted when there is a sort clause
sorted(docs, sort_clause) ==
    IF sort_clause = <<>> THEN docs
    ELSE sort_docs(docs, sort_clause[1].field, sort_clause[1].direction)

\* get_table_data, lines 201-288
GetTableData(data) ==
    LET op           == "get_table_data"
        page         == py_int(json_get_or(data, "page", JInt(1)))
        page_records == py_int(json_get_or(data, "page_records", JInt(10)))
        sort_data    == json_get_or(data, "sort", JDict(EmptyDict))
        query        == table_query(data)
        skip         == (page.v - 1) * page_records.v
        sort_clause  == sort_clause_of(sort_data)
        results      == response_docs(
                            skip_limit(sorted(find(table, query), sort_clause),
                                       skip, page_records.v),
                            projection_of(json_get_or(data, "fields", JList(<<>>))))
    IN  /\ call' =
            IF names_not_strings(data) THEN QueryCall(op, data, 500)
            ELSE IF names_empty(data) THEN QueryCall(op, data, 400)
            ELSE IF ~page.ok \/ ~page_records.ok \/ table_query_raises(data)
            THEN QueryCall(op, data, 500)
            ELSE IF ~collection_exists(data)
            THEN [QueryCall(op, data, 404) EXCEPT
                     !.store_reads = 1, !.query_built = TRUE, !.query = query]
            ELSE IF sort_raises(sort_data) \/ skip < 0
            THEN [QueryCall(op, data, 500) EXCEPT
                     !.store_reads = 1, !.query_built = TRUE, !.query = query]
            ELSE [QueryCall(op, data, 200) EXCEPT
                     !.store_reads = 3, !.query_built = TRUE, !.query = query,
                     !.skip = skip, !.limit = page_records.v,
                     !.sort_clause = sort_clause,
                     !.count = count_documents(table, query),
                     !.data = results]
        /\ UNCHANGED <<uploadVars, createVars, columns_config, table, cache>>

(***************************************************************************)
(* get_products                                                            *)
(***************************************************************************)
\* the requests of the product list
ProductsRequests ==
    {EmptyDict, [fields |-> JList(<<JName("sku")>>)], [page |-> JNull]}
    \cup {[page |-> JInt(p), page_records |-> JInt(n)] : p \in 0..2, n \in 1..2}

\* three products as create_product stores them
SampleProducts ==
    insert_one(
        insert_one(
            insert_one(<<>>, product_doc_of(body("A1")), ObjectId(1)),
            product_doc_of(body("B2")), ObjectId(2)),
        product_doc_of(body("C3")), ObjectId(3))

\* line 321 with the pages counted from 1
products_skip_from_one(page, page_records) == (page - 1) * page_records

\* line 321
products_skip(page, page_records) == page * page_records

\* get_products, lines 310-339
GetProducts(data) ==
    LET op           == "get_products"
        page         == py_int(json_get_or(data, "page", JInt(0)))
        page_records == py_int(json_get_or(data, "page_records", JInt(100)))
        skip         == products_skip(page.v, page_records.v)
        results      == response_docs(
                            skip_limit(products, skip, page_records.v),
                            projection_of(json_get_or(data, "fields", JList(<<>>))))
    IN  /\ call' =
            IF ~page.ok \/ ~page_records.ok THEN QueryCall(op, data, 500)
            ELSE IF skip < 0
            THEN [QueryCall(op, data, 500) EXCEPT !.query_built = TRUE]
            ELSE [QueryCall(op, data, 200) EXCEPT
                     !.store_reads = 1, !.query_built = TRUE,
                     !.skip = skip, !.limit = page_records.v,
                     !.count = Len(results), !.data = results]
        /\ UNCHANGED <<uploadVars, createVars, columns_config, table, cache>>

(***************************************************************************)
(* get_uploaded_files                                                      *)
(***************************************************************************)
\* the requests of the upload list
FilesRequests ==
    {QueryBase, without(QueryBase, "collection"),
     with(QueryBase, [page |-> JStr(<<"x">>)])}
    \cup {with(QueryBase, [page |-> JInt(p), page_records |-> JInt(n)]) :
              p \in 1..2, n \in 1..2}
    \cup {with(QueryBase, [productName |-> v]) :
              v \in {JStr(NameTest), JStr(<<"^", "m", "y">>), JStr(<<>>)}}
    \cup {with(QueryBase, [fields |-> JList(<<JName("price")>>)]),
          with(QueryBase, [sort |-> JStr(<<"a", "s", "c">>)])}

\* line 275: the keys the comprehension leaves out
files_reserved == {"database", "collection", "page", "page_records"}

\* lines 272-276
files_query(data) ==
    [k \in {key \in DOMAIN data : truthy(data[key]) /\ key \notin files_reserved}
        |-> Regex(data[k])]

\* get_uploaded_files, lines 259-303
GetUploadedFiles(data) ==
    LET op           == "get_uploaded_files"
        page         == py_int(json_get_or(data, "page", JInt(1)))
        page_records == py_int(json_get_or(data, "page_records", JInt(20)))
        query        == files_query(data)
        skip         == (page.v - 1) * page_records.v
        sort_clause  == <<[field |-> "createdAt", direction |-> -1]>>
        results      == response_docs(
                            skip_limit(sorted(find(table, query), sort_clause),
                                       skip, page_records.v),
                            NoProjection)
    IN  /\ call' =
            IF names_not_strings(data) \/ ~page.ok \/ ~page_records.ok
            THEN QueryCall(op, data, 500)
            ELSE IF names_empty(data) THEN QueryCall(op, data, 400)
            ELSE IF skip < 0
            THEN [QueryCall(op, data, 500) EXCEPT
                     !.query_built = TRUE, !.query = query]
            ELSE IF query_invalid(query)
            THEN [QueryCall(op, data, 500) EXCEPT
                     !.store_reads = 1, !.query_built = TRUE, !.query = query]
            ELSE [QueryCall(op, data, 200) EXCEPT
                     !.store_reads = 2, !.query_built = TRUE, !.query = query,
                     !.skip = skip, !.limit = page_records.v,
                     !.sort_clause = sort_clause,
                     !.count = count_documents(table, query),
                     !.data = results]
        /\ UNCHANGED <<uploadVars, createVars, columns_config, table, cache>>

(***************************************************************************)
(* dynamic_update, update_product, update_column_is_active                 *)
(***************************************************************************)
\* the identifiers the update requests give: those of the three products,
\* one of no product, a malformed one and a blank one
UpdateIds ==
    {str_oid(ObjectId(n)) : n \in 1..4} \cup {<<"x", "y">>, <<" ">>}

UpdateNames == {"m", "k"}

\* the bodies of dynamic_update
DynamicUpdateRequests ==
    {[database |-> <<"d">>, collection |-> <<"p">>, _id |-> id,
      productName |-> name] : id \in UpdateIds, name \in UpdateNames}
    \cup {[database |-> <<"d">>, collection |-> <<"p">>, productName |-> "m"],
          [database |-> <<" ">>, collection |-> <<"p">>,
           _id |-> str_oid(ObjectId(1)), productName |-> "m"]}

\* the bodies of update_product: with and without an _id of their own, and
\* the empty body
UpdateProductBodies ==
    {[productName |-> name] : name \in UpdateNames}
    \cup {[_id |-> str_oid(ObjectId(3)), productName |-> "m"], <<>>}

\* the bodies of update_column_is_active
ColumnRequests ==
    {JDict([columnName |-> JStr(name), isActive |-> JBool(b)]) :
        name \in {ColA, ColB, ColC}, b \in BOOLEAN}
    \cup {JDict([columnName |-> JStr(ColA)]),
          JDict([columnName |-> JNull, isActive |-> JBool(TRUE)])}

\* what an update handler did with a request
UpdateCall(op, id, data, status_code) ==
    [op |-> op, id |-> id, request |-> data, status_code |-> status_code]

\* the position of the document with the identifier, 0 when there is none
find_by_id(collection, oid) ==
    LET hits == {i \in 1..Len(collection) : collection[i]["_id"] = oid}
    IN  IF hits = {} THEN 0 ELSE SetMin(hits)

\* update_one / find_one_and_update with {"$set": fields} on the document
\* with the identifier
set_fields(collection, oid, fields) ==
    LET i == find_by_id(collection, oid)
    IN  IF i = 0 THEN collection
        ELSE [collection EXCEPT ![i] = dict_merge(@, fields)]

\* lines 146-149
update_fields_of(data) ==
    [k \in DOMAIN data \ {"database", "collection", "_id"} |-> data[k]]

\* dynamic_update, lines 136-173
DynamicUpdate(data) ==
    LET op     == "dynamic_update"
        doc_id == strip(dict_get(data, "_id", <<>>))
    IN  /\ IF invalid_name(data) \/ doc_id = <<>>
           THEN /\ call' = UpdateCall(op, doc_id, data, 400)
                /\ UNCHANGED products
           ELSE IF ~is_valid(doc_id)
           THEN \* ObjectId(doc_id) raises InvalidId
                /\ call' = UpdateCall(op, doc_id, data, 500)
                /\ UNCHANGED products
           ELSE IF find_by_id(products, ObjectId_of(doc_id)) = 0
           THEN /\ call' = UpdateCall(op, doc_id, data, 404)
                /\ UNCHANGED products
           ELSE /\ call' = UpdateCall(op, doc_id, data, 200)
                /\ products' = set_fields(products, ObjectId_of(doc_id),
                                          update_fields_of(data))
        /\ UNCHANGED <<uploadVars, cr, next_oid, columns_config, cache, table>>

\* line 442: data.pop("_id", None)
pop_id(data) == [k \in DOMAIN data \ {"_id"} |-> data[k]]

\* update_product, lines 429-461
UpdateProduct(id, data) ==
    LET op == "update_product"
    IN  /\ IF ~is_valid(id) \/ DOMAIN data = {}
           THEN /\ call' = UpdateCall(op, id, data, 400)
                /\ UNCHANGED products
           ELSE IF find_by_id(products, ObjectId_of(id)) = 0
           THEN /\ call' = UpdateCall(op, id, data, 404)
                /\ UNCHANGED products
           ELSE /\ call' = UpdateCall(op, id, data, 200)
                /\ products' = set_fields(products, ObjectId_of(id),
                                          pop_id(data))
        /\ UNCHANGED <<uploadVars, cr, next_oid, columns_config, cache, table>>

\* update_column_is_active, lines 322-342: line 331 names column_collection,
\* which no line of the function or of the module assigns, so the call raises
\* NameError
UpdateColumnIsActive(data) ==
    LET column_name == json_get(data.v, "columnName")
        is_active   == json_get(data.v, "isActive")
    IN  /\ call' = UpdateCall("update_column_is_active", <<>>, data,
                              IF column_name.t = "null" \/ is_active.t = "null"
                              THEN 400 ELSE 500)
        /\ UNCHANGED <<uploadVars, createVars, columns_config, cache, table>>

(***************************************************************************)
(* dynamic_insert, get_product, dynamic_delete, delete_product             *)
(***************************************************************************)
\* the characters of the keys the insert bodies use
key_chars(key) ==
    CASE key = "1" -> <<"1">>
      [] key = "2" -> <<"2">>
      [] key = "10" -> <<"1", "0">>
      [] OTHER -> <<"k">>

\* line 74: re.match(r'^\d+$', key)
numbered(key) == AllDigits(key_chars(key))

\* a numbered entry of an insert body
field(name, value) == [fieldName |-> name, fieldValue |-> value]

\* the names of a request body
names(database, collection) ==
    [database |-> database, collection |-> collection]

\* the bodies of dynamic_insert: they name mongo.db.products or the other
\* collection, carry numbered entries, an entry under a key that is no
\* number, an entry without a field name, an entry named createdAt, no entry
\* at all, or a blank database name
InsertRequests ==
    {names(<<"d">>, c) @@ ("1" :> field("sku", sku)) @@
                          ("2" :> field("productName", "n")) :
        c \in {<<"p">>, <<"t">>}, sku \in Skus}
    \cup {names(<<"d">>, <<"p">>) @@ ("1" :> field("sku", "A1")) @@
                                     ("note" :> field("productName", "n")),
          names(<<"d">>, <<"p">>) @@ ("1" :> field("", "A1")) @@
                                     ("10" :> field("createdAt", "never")),
          names(<<"d">>, <<"p">>),
          names(<<" ">>, <<"p">>) @@ ("1" :> field("sku", "A1"))}

\* lines 72-79: the document the numbered entries describe
document_of(data) ==
    LET keys == {k \in DOMAIN data \ {"database", "collection"} :
                    numbered(k) /\ data[k]["fieldName"] # ""}
    IN  [name \in {data[k]["fieldName"] : k \in keys} |->
            data[CHOOSE k \in keys : data[k]["fieldName"] = name]["fieldValue"]]

\* dynamic_insert, lines 62-95
DynamicInsert(data) ==
    LET op       == "dynamic_insert"
        document == dict_merge(document_of(data), [createdAt |-> utcnow])
    IN  /\ next_oid <= MaxOids
        /\ IF invalid_name(data)
           THEN /\ call' = UpdateCall(op, None, data, 400)
                /\ UNCHANGED <<products, table, next_oid>>
           ELSE /\ call' = UpdateCall(op, str_oid(ObjectId(next_oid)), data,
                                      201)
                /\ next_oid' = next_oid + 1
                /\ IF names_products(data)
                   THEN /\ products' = insert_one(products, document,
                                                  ObjectId(next_oid))
                        /\ UNCHANGED table
                   ELSE /\ table' = insert_one(table, document,
                                               ObjectId(next_oid))
                        /\ UNCHANGED products
        /\ UNCHANGED <<uploadVars, cr, columns_config, cache>>

\* line 376: product["_id"] = str(product["_id"])
with_str_id(product) == [product EXCEPT !["_id"] = str_oid(@)]

\* what get_product answered
ProductCall(id, status_code, product) ==
    [op |-> "get_product", id |-> id, request |-> <<>>,
     status_code |-> status_code, product |-> product]

\* get_product, lines 363-381
GetProduct(id) ==
    LET found == find_by_id(products, ObjectId_of(id))
    IN  /\ call' = IF ~is_valid(id) THEN ProductCall(id, 400, <<>>)
                   ELSE IF found = 0 THEN ProductCall(id, 404, <<>>)
                   ELSE ProductCall(id, 200, with_str_id(products[found]))
        /\ UNCHANGED <<uploadVars, createVars, columns_config, cache, table>>

\* the bodies of dynamic_delete
DeleteRequests ==
    {names(<<"d">>, c) @@ [_id |-> id] :
        c \in {<<"p">>, <<"t">>}, id \in UpdateIds}
    \cup {names(<<"d">>, <<"p">>),
          names(<<"d">>, <<>>) @@ [_id |-> str_oid(ObjectId(1))]}

\* a delete that removes nothing
delete_none(collection, oid) == collection

\* collection.delete_one({"_id": oid}): the collection without the first
\* document with the identifier
delete_one(collection, oid) ==
    LET i == find_by_id(collection, oid)
    IN  IF i = 0 THEN collection
        ELSE SubSeq(collection, 1, i - 1)
             \o SubSeq(collection, i + 1, Len(collection))

\* result.deleted_count
deleted_count(collection, oid) ==
    IF find_by_id(collection, oid) = 0 THEN 0 ELSE 1

\* dynamic_delete, lines 211-232
DynamicDelete(data) ==
    LET op     == "dynamic_delete"
        doc_id == strip(dict_get(data, "_id", <<>>))
        oid    == ObjectId_of(doc_id)
    IN  /\ IF invalid_name(data) \/ doc_id = <<>>
           THEN /\ call' = UpdateCall(op, doc_id, data, 400)
                /\ UNCHANGED <<products, table>>
           ELSE IF ~is_valid(doc_id)
           THEN \* ObjectId(doc_id) raises InvalidId
                /\ call' = UpdateCall(op, doc_id, data, 500)
                /\ UNCHANGED <<products, table>>
           ELSE /\ call' = UpdateCall(op, doc_id, data,
                               IF deleted_count(named_collection(data), oid) = 0
                               THEN 404 ELSE 200)
                /\ IF names_products(data)
                   THEN /\ products' = delete_one(products, oid)
                        /\ UNCHANGED table
                   ELSE /\ table' = delete_one(table, oid)
                        /\ UNCHANGED products
        /\ UNCHANGED <<uploadVars, cr, next_oid, columns_config, cache>>

\* delete_product, lines 487-502
DeleteProduct(id) ==
    LET op  == "delete_product"
        oid == ObjectId_of(id)
    IN  /\ IF ~is_valid(id)
           THEN /\ call' = UpdateCall(op, id, <<>>, 400)
                /\ UNCHANGED products
           ELSE /\ call' = UpdateCall(op, id, <<>>,
                               IF deleted_count(products, oid) = 0
                               THEN 404 ELSE 200)
                /\ products' = delete_one(products, oid)
        /\ UNCHANGED <<uploadVars, cr, next_oid, columns_config, cache, table>>

(***************************************************************************)
(* delete_uploaded_file                                                    *)
(***************************************************************************)
\* the rows of a file that is uploaded and deleted afterwards
MaxFileRows == 2

\* the 36 characters of str(uuid.uuid4()) for the identifier of request r
uuid_chars(file_id) ==
    [i \in 1..36 |-> IF i \in {9, 14, 19, 24} THEN "-"
                     ELSE IF i = 15 THEN "4"
                     ELSE IF i = 36 THEN HexChars[file_id[2] + 1]
                     ELSE "0"]

\* the bodies of delete_uploaded_file: the fileId an upload returns, that of
\* no upload, a well-formed ObjectId string, no fileId, a blank database name
FileDeleteRequests ==
    {[database |-> <<"d">>, file_collection |-> <<"f">>,
      data_collection |-> <<"d">>, fileId |-> id] :
        id \in {uuid_chars(uuid4(1)), uuid_chars(uuid4(9)),
                str_oid(ObjectId(1)), <<>>}}
    \cup {[database |-> <<" ">>, file_collection |-> <<"f">>,
           data_collection |-> <<"d">>, fileId |-> uuid_chars(uuid4(1))]}

\* line 353: not all([...])
delete_fields_missing(data) ==
    \/ strip(data["database"]) = <<>>
    \/ strip(data["file_collection"]) = <<>>
    \/ strip(data["data_collection"]) = <<>>
    \/ data["fileId"] = <<>>

\* the documents of a batch whose fileId is not the given one
RECURSIVE batch_without(_, _)
batch_without(batch, file_id) ==
    IF batch = <<>> THEN <<>>
    ELSE IF batch[1]["fileId"] = file_id
    THEN batch_without(Tail(batch), file_id)
    ELSE <<batch[1]>> \o batch_without(Tail(batch), file_id)

\* line 367: data_collection.delete_many({"fileId": file_id})
delete_many(collection, file_id) ==
    [b \in 1..Len(collection) |-> batch_without(collection[b], file_id)]

\* data_delete_result.deleted_count
rows_deleted(collection, file_id) ==
    Len(documents(collection)) - Len(documents(delete_many(collection, file_id)))

\* what delete_uploaded_file answered
FileDeleteCall(data, status_code, rowsDeleted) ==
    [op |-> "delete_uploaded_file", request |-> data,
     status_code |-> status_code, rowsDeleted |-> rowsDeleted]

\* delete_uploaded_file, lines 345-378
DeleteUploadedFile(data) ==
    LET file_object_id == ObjectId_of(data["fileId"])
    IN  /\ IF delete_fields_missing(data)
           THEN /\ call' = FileDeleteCall(data, 400, 0)
                /\ UNCHANGED <<file_collection, data_collection>>
           ELSE IF ~is_valid(data["fileId"])
           THEN \* line 360: ObjectId(file_id) raises InvalidId
                /\ call' = FileDeleteCall(data, 500, 0)
                /\ UNCHANGED <<file_collection, data_collection>>
           ELSE IF file_object_id \notin DOMAIN file_collection
           THEN /\ call' = FileDeleteCall(data, 404, 0)
                /\ UNCHANGED <<file_collection, data_collection>>
           ELSE /\ call' = FileDeleteCall(data, 200,
                               rows_deleted(data_collection, file_object_id))
                /\ data_collection' = delete_many(data_collection,
                                                  file_object_id)
                /\ file_collection' =
                     [id \in DOMAIN file_collection \ {file_object_id} |->
                         file_collection[id]]
        /\ UNCHANGED <<up, error_collection, job_updates, createVars,
                       columns_config, cache, table>>

(***************************************************************************)
(* validate_excel_row                                                      *)
(***************************************************************************)
\* the values a cell of the department column has, Absent when the sheet has
\* no such column
Absent == [t |-> "absent"]

DepartmentCells ==
    {Absent, JNull, JStr(<<>>), JStr(<<" ">>), JStr(<<"I", "T">>), JInt(0),
     JInt(7), JBool(FALSE)}

\* the values a cell of the amount column has
AmountCells ==
    {Absent, JNull, JInt(0), JInt(1), JInt(0 - 1), JFloat(0), JFloat(50),
     JFloat(0 - 50), JBool(TRUE), JBool(FALSE), JStr(<<>>), JStr(<<"5">>),
     JStr(<<"a">>)}

\* the rows handed to the validator
ValidatorRows ==
    {[k \in {key \in {"department", "amount", "note"} :
                 \/ key = "department" /\ d # Absent
                 \/ key = "amount" /\ a # Absent
                 \/ key = "note" /\ note} |->
         CASE k = "department" -> d
           [] k = "amount" -> a
           [] OTHER -> JStr(<<"n">>)] :
        d \in DepartmentCells, a \in AmountCells, note \in BOOLEAN}

DepartmentRequired ==
    <<"D", "e", "p", "a", "r", "t", "m", "e", "n", "t", " ", "i", "s", " ",
      "r", "e", "q", "u", "i", "r", "e", "d">>

AmountPositive ==
    <<"A", "m", "o", "u", "n", "t", " ", "m", "u", "s", "t", " ", "b", "e",
      " ", "g", "r", "e", "a", "t", "e", "r", " ", "t", "h", "a", "n", " ",
      "z", "e", "r", "o">>

\* what a call of the validator does: it returns a value or raises
Returns(value) == [raised |-> FALSE, value |-> value]

RaisesTypeError == [raised |-> TRUE, value |-> None]

\* line 16: amount <= 0 is defined for numbers and booleans, and raises
\* TypeError for every other type
comparable(amount) == amount.t \in {"int", "float", "bool"}

\* amount <= 0 of a comparable value
not_positive(amount) ==
    IF amount.t = "bool" THEN ~amount.v ELSE amount.v <= 0

\* validate_excel_row, lines 11-19
validate_excel_row(row) ==
    LET amount == json_get(row, "amount")
    IN  IF ~truthy(json_get(row, "department"))
        THEN Returns(DepartmentRequired)
        ELSE IF amount.t = "null" THEN Returns(AmountPositive)
        ELSE IF ~comparable(amount) THEN RaisesTypeError
        ELSE IF not_positive(amount) THEN Returns(AmountPositive)
        ELSE Returns(None)

\* one call of the validator
ValidateRow(row) ==
    /\ call' = [op |-> "validate_excel_row", status_code |-> 0, row |-> row,
                result |-> validate_excel_row(row)]
    /\ UNCHANGED <<uploadVars, createVars, columns_config, cache, table>>

(***************************************************************************)
(* Specifications                                                          *)
(***************************************************************************)
Init ==
    /\ up = [r \in UploadReqs |-> UploadIdle]
    /\ file_collection = <<>>
    /\ data_collection = <<>>
    /\ error_collection = <<>>
    /\ job_updates = <<>>
    /\ cr = [c \in CreateReqs |-> CreateIdle]
    /\ products = <<>>
    /\ next_oid = 1
    /\ columns_config = <<>>
    /\ cache = <<>>
    /\ table = <<>>
    /\ call = NoCall

\* one upload request, from its arrival to its response
Next ==
    \/ \E request \in UploadRequests : ReadForm(1, request)
    \/ InsertJob(1)
    \/ LoadWorkbook(1)
    \/ \E headers \in HeaderRows : ReadHeaders(1, headers)
    \/ ReadRow(1)
    \/ FlushData(1)
    \/ FlushErrors(1)
    \/ EndOfRows(1)
    \/ RestData(1)
    \/ RestErrors(1)
    \/ UpdateJob(1)
    \/ Raise(1)
    \/ InsertManyRaises(1)

Spec == Init /\ [][Next]_vars

\* create requests served one after the other
NextCreate ==
    \/ \E c \in CreateReqs, data \in CreateBodies :
           NoCreateInFlight /\ ReadJson(c, data)
    \/ \E c \in CreateReqs : FindOne(c)
    \/ \E c \in CreateReqs : InsertOne(c)
    \/ \E c \in CreateReqs : CreateRaises(c)

SpecCreate == Init /\ [][NextCreate]_vars

\* create requests handled concurrently: the steps of different requests
\* interleave at the store operations
NextCreateConc ==
    \/ \E c \in CreateReqs, data \in CreateBodies : ReadJson(c, data)
    \/ \E c \in CreateReqs : FindOne(c)
    \/ \E c \in CreateReqs : InsertOne(c)
    \/ \E c \in CreateReqs : CreateRaises(c)

SpecCreateConc == Init /\ [][NextCreateConc]_vars

\* the state the column-config endpoints run against
InitColumns ==
    /\ up = [r \in UploadReqs |-> UploadIdle]
    /\ file_collection = <<>>
    /\ data_collection = <<>>
    /\ error_collection = <<>>
    /\ job_updates = <<>>
    /\ cr = [c \in CreateReqs |-> CreateIdle]
    /\ products = <<>>
    /\ next_oid = 1
    /\ columns_config = SampleColumns
    /\ cache = <<>>
    /\ table = <<>>
    /\ call = NoCall

\* bulk column-config updates, one request after the other
NextBulk ==
    \/ \E updates \in BulkPayloads : BulkUpdate(updates)
    \/ \E updates \in BulkPayloads, applied \in 0..MaxItems :
           BulkWriteRaises(updates, applied)

SpecBulk == InitColumns /\ [][NextBulk]_vars

\* a request whose cached payload is older than the collection
StaleKey == with(QueryBase, [productName |-> JStr(NameTest)])

\* the payload cached for it when the collection held a document that has
\* been deleted since
StalePayload ==
    [count |-> 1,
     data |-> response_docs(
                  <<[_id |-> ObjectId(9), productName |-> JStr(NameTest),
                     price |-> JInt(1), createdAt |-> JInt(0)]>>,
                  NoProjection)]

\* the collections hold the sample documents, the cache is empty or holds
\* one stale payload
InitQuery ==
    /\ up = [r \in UploadReqs |-> UploadIdle]
    /\ file_collection = <<>>
    /\ data_collection = <<>>
    /\ error_collection = <<>>
    /\ job_updates = <<>>
    /\ cr = [c \in CreateReqs |-> CreateIdle]
    /\ products = SampleProducts
    /\ next_oid = Len(SampleProducts) + 1
    /\ columns_config = <<>>
    /\ cache \in {EmptyDict, StaleKey :> StalePayload}
    /\ table = SampleTable
    /\ call = NoCall

\* list and search requests, one after the other
NextQuery ==
    \/ \E data \in SearchRequests : SearchForName(data)
    \/ \E data \in SearchRequests : SearchStoreRaises(data)
    \/ \E data \in TableRequests : GetTableData(data)
    \/ \E data \in ProductsRequests : GetProducts(data)
    \/ \E data \in FilesRequests : GetUploadedFiles(data)

SpecQuery == InitQuery /\ [][NextQuery]_vars

\* the products and the column configurations are in place
InitUpdate ==
    /\ up = [r \in UploadReqs |-> UploadIdle]
    /\ file_collection = <<>>
    /\ data_collection = <<>>
    /\ error_collection = <<>>
    /\ job_updates = <<>>
    /\ cr = [c \in CreateReqs |-> CreateIdle]
    /\ products = SampleProducts
    /\ next_oid = Len(SampleProducts) + 1
    /\ columns_config = SampleColumns
    /\ cache = EmptyDict
    /\ table = <<>>
    /\ call = NoCall

\* update requests, one after the other
NextUpdate ==
    \/ \E data \in DynamicUpdateRequests : DynamicUpdate(data)
    \/ \E id \in UpdateIds, data \in UpdateProductBodies :
           UpdateProduct(id, data)
    \/ \E data \in ColumnRequests : UpdateColumnIsActive(data)

SpecUpdate == InitUpdate /\ [][NextUpdate]_vars

\* the requests that insert and delete documents
DeleteInserts ==
    {data \in InsertRequests : "2" \in DOMAIN data /\ data["1"]["fieldValue"] = "A1"}

\* inserts and deletes, one request after the other
NextDelete ==
    \/ \E data \in DeleteInserts : DynamicInsert(data)
    \/ \E data \in DeleteRequests : DynamicDelete(data)
    \/ \E id \in UpdateIds : DeleteProduct(id)

SpecDelete == Init /\ [][NextDelete]_vars

\* the bodies of create_product whose documents are fetched afterwards: they
\* name mongo.db.products or the other collection, or carry a field that is
\* none of the product's
RoundTripBodies ==
    {body("A1"), [body("A1") EXCEPT !.collection = <<"t">>],
     body("B2") @@ [price |-> "5"]}

\* creates and fetches, one request after the other
NextRoundTrip ==
    \/ \E data \in RoundTripBodies : ReadJson(1, data)
    \/ FindOne(1)
    \/ InsertOne(1)
    \/ CreateRaises(1)
    \/ \E data \in InsertRequests : NoCreateInFlight /\ DynamicInsert(data)
    \/ \E id \in UpdateIds : NoCreateInFlight /\ GetProduct(id)

SpecRoundTrip == Init /\ [][NextRoundTrip]_vars

\* the upload requests that pass the validation
AcceptedUploads == {request \in UploadRequests : ~upload_rejected(request)}

\* one upload of a short file, and requests to delete uploaded files
NextFiles ==
    \/ \E request \in AcceptedUploads : ReadForm(1, request)
    \/ InsertJob(1)
    \/ LoadWorkbook(1)
    \/ \E headers \in HeaderRows : ReadHeaders(1, headers)
    \/ up[1].total < MaxFileRows /\ ReadRow(1)
    \/ FlushData(1)
    \/ FlushErrors(1)
    \/ EndOfRows(1)
    \/ RestData(1)
    \/ RestErrors(1)
    \/ UpdateJob(1)
    \/ \E data \in FileDeleteRequests : DeleteUploadedFile(data)

SpecFiles == Init /\ [][NextFiles]_vars

\* the validator applied to one row after the other
NextValidate == \E row \in ValidatorRows : ValidateRow(row)

SpecValidate == Init /\ [][NextValidate]_vars

\* the rows of a file of the uploads that run side by side
MaxConcRows == 2

\* two uploads against the same database and data collection; their steps
\* interleave in every order
NextUploadConc ==
    \E r \in UploadReqs :
        \/ \E request \in AcceptedUploads : ReadForm(r, request)
        \/ InsertJob(r)
        \/ LoadWorkbook(r)
        \/ \E headers \in HeaderRows : ReadHeaders(r, headers)
        \/ up[r].total < MaxConcRows /\ ReadRow(r)
        \/ FlushData(r)
        \/ FlushErrors(r)
        \/ EndOfRows(r)
        \/ RestData(r)
        \/ RestErrors(r)
        \/ UpdateJob(r)

SpecUploadConc == Init /\ [][NextUploadConc]_vars

\* one upload whose parser and store calls all succeed: the row stream ends
\* after MaxRows rows at the latest
NextUploadLive ==
    \/ \E request \in UploadRequests : ReadForm(1, request)
    \/ InsertJob(1)
    \/ LoadWorkbook(1)
    \/ \E headers \in HeaderRows : ReadHeaders(1, headers)
    \/ ReadRow(1)
    \/ FlushData(1)
    \/ FlushErrors(1)
    \/ EndOfRows(1)
    \/ RestData(1)
    \/ RestErrors(1)
    \/ UpdateJob(1)

\* the handler is sequential code that runs on: a step that can be taken is
\* taken
SpecUploadLive ==
    Init /\ [][NextUploadLive]_vars /\ WF_vars(NextUploadLive)

(***************************************************************************)
(* Properties                                                              *)
(***************************************************************************)

\* C1: when an upload has made its terminal job update, the counters in the
\* job record satisfy totalRows = validRows + invalidRows, and the written
\* status is "failed" exactly when invalidRows > 0.
C1_TerminalCounters ==
    \A r \in UploadReqs :
        (up[r].pc = "done" /\ up[r].status_code = 200) =>
            LET job == file_collection[up[r].file_id]
            IN  /\ job.totalRows = job.validRows + job.invalidRows
                /\ job.totalRows = up[r].total
                /\ (job.status = "failed") <=> (job.invalidRows > 0)

\* an upload of more than one batch has made its terminal update
C1_Witness ==
    \E r \in UploadReqs :
        /\ up[r].pc = "done" /\ up[r].status_code = 200
        /\ file_collection[up[r].file_id].totalRows > batch_size
        /\ file_collection[up[r].file_id].status # "uploading"

\* C2: the persisted status of a job is always one of uploading, completed,
\* failed; completed goes with no invalid row and failed with some invalid
\* row; once the status is not uploading it never changes.
C2_StatusLifecycle ==
    /\ [](\A id \in DOMAIN file_collection :
            LET job == file_collection[id]
            IN  /\ job.status \in {"uploading", "completed", "failed"}
                /\ job.status = "completed" => job.invalidRows = 0
                /\ job.status = "failed" => job.invalidRows > 0)
    /\ [][\A id \in DOMAIN file_collection :
            file_collection[id].status # "uploading" =>
                file_collection'[id].status = file_collection[id].status]_vars

\* C3: the row-record buffer and the row-error buffer hold at most
\* batch_size entries in every state of an upload.
C3_BuffersBounded ==
    \A r \in UploadReqs :
        /\ Len(up[r].data_buffer) <= batch_size
        /\ Len(up[r].error_buffer) <= batch_size

\* a buffer is full right after an append, and the upload goes on after the
\* flush
C3_Witness ==
    \E r \in UploadReqs :
        /\ up[r].pc = "flush_data"
        /\ Len(up[r].data_buffer) = batch_size
        /\ data_collection # <<>>

\* C4: an upload of N rows, all valid, makes ceil(N / batch_size)
\* insert_many calls on the data collection: N \div batch_size calls of
\* batch_size rows, then one call of N % batch_size rows when that is
\* positive; no call writes an empty batch.
C4_BatchSizes ==
    /\ \A i \in 1..Len(data_collection) : Len(data_collection[i]) > 0
    /\ \A r \in UploadReqs :
        (up[r].pc = "done" /\ up[r].status_code = 200
            /\ up[r].valid = up[r].total) =>
            LET N == up[r].total
                B == batch_size
            IN  /\ Len(data_collection) = (N + B - 1) \div B
                /\ \A i \in 1..Len(data_collection) :
                       Len(data_collection[i]) =
                           IF i <= N \div B THEN B ELSE N % B

\* the 1200-row upload has written batches of 500, 500 and 200 rows
C4_Witness ==
    \E r \in UploadReqs :
        /\ up[r].pc = "done" /\ up[r].status_code = 200
        /\ up[r].total = 1200
        /\ Len(data_collection) = 3
        /\ Len(data_collection[1]) = 500
        /\ Len(data_collection[2]) = 500
        /\ Len(data_collection[3]) = 200

\* C5: from the creation of the job record to the final update the record
\* stays (uploading, 0, 0, 0) while rows are streamed and batches flushed,
\* and an upload that answers 200 has written the record exactly once after
\* creating it.
C5_JobWrittenOnce ==
    \A r \in UploadReqs :
        /\ up[r].pc \in {"load_workbook", "read_headers", "next_row",
                         "flush_data", "flush_errors", "rest_data",
                         "rest_errors", "update_job"} =>
               /\ up[r].file_id \in DOMAIN file_collection
               /\ LET job == file_collection[up[r].file_id]
                  IN  /\ job.status = "uploading"
                      /\ job.totalRows = 0
                      /\ job.validRows = 0
                      /\ job.invalidRows = 0
               /\ job_updates[up[r].file_id] = 0
        /\ (up[r].pc = "done" /\ up[r].status_code = 200) =>
               job_updates[up[r].file_id] = 1

\* two batches are flushed, rows are still streamed, the job is untouched
C5_Witness ==
    \E r \in UploadReqs :
        /\ up[r].pc = "next_row"
        /\ Len(data_collection) = 2
        /\ file_collection[up[r].file_id].status = "uploading"
        /\ job_updates[up[r].file_id] = 0

\* C6: a request without file, database, data_collection or uploadedBy, or
\* with a filename that does not end in .xlsx or does not match the
\* filename pattern, is answered 400 and nothing is written to the store.
C6_RejectedBeforeWrites ==
    \A r \in UploadReqs :
        LET request == up[r].request
            bad == \/ request.file \in {None, <<>>}
                   \/ request.database \in {None, <<>>}
                   \/ request.data_collection \in {None, <<>>}
                   \/ request.uploadedBy \in {None, <<>>}
                   \/ ~endswith(request.file, DotXlsx)
                   \/ ~re_match(request.file)
        IN  (up[r].pc # "idle" /\ bad) =>
                /\ up[r].pc = "done"
                /\ up[r].status_code = 400
                /\ file_collection = <<>>
                /\ data_collection = <<>>
                /\ error_collection = <<>>

\* a request complete but for the filename pattern has been answered 400
C6_Witness ==
    \E r \in UploadReqs :
        /\ up[r].status_code = 400
        /\ up[r].request.file = ShortDateName
        /\ strip(form_get(up[r].request.database)) # <<>>
        /\ strip(form_get(up[r].request.data_collection)) # <<>>
        /\ strip(form_get(up[r].request.uploadedBy)) # <<>>
        /\ file_collection = <<>>

\* C7: when a step after the creation of the job record raises, the request
\* is answered 500, the job record stays (uploading, 0, 0, 0) from then on,
\* and what was written to the data and error collections stays there.
C7_FailureLeavesJobUploading ==
    /\ [](\A r \in UploadReqs :
            (up[r].status_code = 500
                /\ up[r].file_id \in DOMAIN file_collection) =>
                LET job == file_collection[up[r].file_id]
                IN  /\ up[r].pc = "done"
                    /\ job.status = "uploading"
                    /\ job.totalRows = 0
                    /\ job.validRows = 0
                    /\ job.invalidRows = 0)
    /\ [][/\ Len(data_collection') >= Len(data_collection)
          /\ SubSeq(data_collection', 1, Len(data_collection))
                 = data_collection
          /\ Len(error_collection') >= Len(error_collection)
          /\ SubSeq(error_collection', 1, Len(error_collection))
                 = error_collection]_vars

\* an upload has failed after flushing a batch
C7_Witness ==
    \E r \in UploadReqs :
        /\ up[r].status_code = 500
        /\ up[r].file_id \in DOMAIN file_collection
        /\ file_collection[up[r].file_id].status = "uploading"
        /\ Len(data_collection) >= 1
        /\ up[r].total > batch_size

\* C8: the row numbers of the documents an upload writes increase strictly
\* inside every batch, and every row number of a batch is below every row
\* number of the batch written after it.
C8_RowNumbersIncrease ==
    \A coll \in {data_collection, error_collection} :
        \A i \in 1..Len(coll) :
            /\ \A j \in 1..(Len(coll[i]) - 1) :
                   coll[i][j]["rowNumber"] < coll[i][j + 1]["rowNumber"]
            /\ i > 1 =>
                   coll[i - 1][Len(coll[i - 1])]["rowNumber"]
                       < coll[i][1]["rowNumber"]

\* C9: after the terminal job update the number of row records stored
\* with the job's identifier equals validRows and the number of row errors
\* stored with it equals invalidRows.
C9_OneEntryPerRow ==
    \A r \in UploadReqs :
        (up[r].pc = "done" /\ up[r].status_code = 200) =>
            LET job == file_collection[up[r].file_id]
                of_job(coll) ==
                    {<<i, j>> \in (1..Len(coll)) \X (1..batch_size) :
                        /\ j <= Len(coll[i])
                        /\ coll[i][j]["fileId"] = up[r].file_id}
            IN  /\ Cardinality(of_job(data_collection)) = job.validRows
                /\ Cardinality(of_job(error_collection)) = job.invalidRows

\* C10: a create whose sku is already in the collection inserts nothing and
\* is answered 400 (500 when the store raises during the check); with
\* create requests served one after the other no two documents of the
\* collection have the same sku.
C10_DuplicateSkuRejected ==
    /\ [](\A i, j \in 1..Len(products) :
            i # j => products[i]["sku"] # products[j]["sku"])
    /\ [][\A c \in CreateReqs :
            (/\ cr[c].pc = "find_one"
             /\ \E i \in 1..Len(products) :
                    products[i]["sku"] = cr[c].data["sku"]) =>
                /\ products' = products
                /\ cr'[c].pc # "insert_one"
                /\ cr'[c].pc = "done" => cr'[c].status_code \in {400, 500}]_vars

\* a complete create request for a stored sku has been answered 400
C10_Witness ==
    \E c \in CreateReqs :
        /\ cr[c].pc = "done" /\ cr[c].status_code = 400
        /\ ~field_missing(cr[c].data)
        /\ Len(products) = 2
        /\ \E i \in 1..Len(products) : products[i]["sku"] = cr[c].data["sku"]

\* C11: the duplicate check and the insert are two store operations: a
\* request that has passed the check inserts its document whatever the
\* collection holds by then (unless the insert itself raises), so that two
\* concurrent creates of one sku can both insert.
C11_CheckThenActRace ==
    [][\A c \in CreateReqs :
         (/\ cr[c].pc = "insert_one"
          /\ cr'[c].pc = "done"
          /\ cr'[c].status_code # 500) =>
             /\ cr'[c].status_code = 201
             /\ Len(products') = Len(products) + 1
             /\ products'[Len(products')]["sku"] = cr[c].data["sku"]
             /\ SubSeq(products', 1, Len(products)) = products]_vars

\* two requests with the same sku have both been answered 201 and the
\* collection holds two documents with that sku
C11_Witness ==
    \E c1, c2 \in CreateReqs :
        /\ c1 # c2
        /\ cr[c1].status_code = 201 /\ cr[c2].status_code = 201
        /\ cr[c1].data["sku"] = cr[c2].data["sku"]
        /\ cr[c1].inserted_id # cr[c2].inserted_id
        /\ \E i, j \in 1..Len(products) :
               /\ i # j
               /\ products[i]["_id"] = cr[c1].inserted_id
               /\ products[j]["_id"] = cr[c2].inserted_id
               /\ products[i]["sku"] = products[j]["sku"]

\* C12: a bulk update whose payload is not a non-empty array, or has an item
\* without columnName or isActive, leaves the store unchanged and issues no
\* bulk write (answered 400 when every item is an object); any other
\* payload issues exactly one bulk write with one update per item, in input
\* order.
C12_ValidateThenOneBulkWrite ==
    [][call'.op = "bulk_update" =>
         LET updates == call'.request
             lacks(item) ==
                 \/ item.t # "dict"
                 \/ "columnName" \notin DOMAIN item.v
                 \/ "isActive" \notin DOMAIN item.v
                 \/ item.v["columnName"].t = "null"
                 \/ item.v["isActive"].t = "null"
             bad == \/ updates.t # "list"
                    \/ Len(updates.v) = 0
                    \/ \E i \in 1..Len(updates.v) : lacks(updates.v[i])
             objects == updates.t = "list" =>
                            \A i \in 1..Len(updates.v) :
                                updates.v[i].t = "dict"
         IN  IF bad
             THEN /\ columns_config' = columns_config
                  /\ call'.bulk_writes = <<>>
                  /\ call'.status_code \in {400, 500}
                  /\ objects => call'.status_code = 400
             ELSE /\ Len(call'.bulk_writes) = 1
                  /\ Len(call'.bulk_writes[1]) = Len(updates.v)
                  /\ \A i \in 1..Len(updates.v) :
                         /\ call'.bulk_writes[1][i].columnName
                                = updates.v[i].v["columnName"].v
                         /\ call'.bulk_writes[1][i].isActive
                                = updates.v[i].v["isActive"].v]_vars

\* a payload with a valid first item and an incomplete second item has been
\* answered 400 with the first item's column still as it was
C12_Witness ==
    /\ call.op = "bulk_update"
    /\ call.status_code = 400
    /\ call.request.t = "list"
    /\ Len(call.request.v) = 2
    /\ call.request.v[1] =
           JDict([columnName |-> JStr(ColB), isActive |-> JBool(TRUE)])
    /\ call.request.v[2] = JDict([columnName |-> JStr(ColA)])
    /\ columns_config = SampleColumns

\* C13 as stated: every paginated operation that answers from the store,
\* asked for page >= 1 with page_records >= 1, skips (page-1)*page_records
\* documents and returns at most page_records documents.
C13_SkipFromPageOne ==
    LET default_page == IF call.op = "get_products" THEN 0 ELSE 1
        page         == py_int(json_get_or(call.request, "page",
                                           JInt(default_page))).v
        default_size == CASE call.op = "search_for_name" -> 1000
                          [] call.op = "get_table_data" -> 10
                          [] call.op = "get_products" -> 100
                          [] call.op = "get_uploaded_files" -> 20
        page_records == py_int(json_get_or(call.request, "page_records",
                                           JInt(default_size))).v
    IN  (/\ call.op \in {"search_for_name", "get_table_data", "get_products",
                         "get_uploaded_files"}
         /\ call.status_code = 200 /\ ~call.cache_hit
         /\ page >= 1 /\ page_records >= 1) =>
            /\ call.skip = (page - 1) * page_records
            /\ Len(call.data) <= page_records

\* C13: asked for page >= 1 with page_records >= 1, the name search, the
\* table-data search and the upload list skip (page-1)*page_records of the
\* matching documents and the product list, whose pages count from 0, skips
\* page*page_records of them; each returns the documents that follow, at
\* most page_records of them.
C13_PageSkip ==
    LET default_page == IF call.op = "get_products" THEN 0 ELSE 1
        page         == py_int(json_get_or(call.request, "page",
                                           JInt(default_page))).v
        default_size == CASE call.op = "search_for_name" -> 1000
                          [] call.op = "get_table_data" -> 10
                          [] call.op = "get_products" -> 100
                          [] call.op = "get_uploaded_files" -> 20
        page_records == py_int(json_get_or(call.request, "page_records",
                                           JInt(default_size))).v
        offset       == IF call.op = "get_products" THEN page * page_records
                        ELSE (page - 1) * page_records
        matching     == IF call.op = "get_products" THEN products
                        ELSE sorted(find(table, call.query), call.sort_clause)
        rest         == IF Len(matching) > offset THEN Len(matching) - offset
                        ELSE 0
    IN  (/\ call.op \in {"search_for_name", "get_table_data", "get_products",
                         "get_uploaded_files"}
         /\ call.status_code = 200 /\ ~call.cache_hit
         /\ page >= 1 /\ page_records >= 1) =>
            /\ call.skip = offset
            /\ Len(call.data) <= page_records
            /\ Len(call.data) = IF rest < page_records THEN rest ELSE page_records
            /\ \A i \in 1..Len(call.data) :
                   call.data[i]["_id"] = str_oid(matching[offset + i]["_id"])

\* the product list, asked for page 1 of size 1, has skipped one product and
\* returned the second; the table-data search, asked for page 2 of size 1,
\* would have skipped one document too
C13_Witness ==
    /\ call.op = "get_products"
    /\ call.status_code = 200
    /\ call.request = [page |-> JInt(1), page_records |-> JInt(1)]
    /\ call.skip = 1
    /\ Len(call.data) = 1
    /\ call.data[1]["_id"] = str_oid(ObjectId(2))

\* C14: the count a search or list operation returns from the store is the
\* number of all documents that match its predicate, whatever fields, page
\* and page_records the request gives.
C14_CountAllMatching ==
    (/\ call.op \in {"search_for_name", "get_table_data", "get_products",
                     "get_uploaded_files"}
     /\ call.status_code = 200 /\ ~call.cache_hit) =>
        call.count = IF call.op = "get_products" THEN Len(products)
                     ELSE Cardinality({i \in 1..Len(table) :
                                          doc_matches(table[i], call.query)})

\* C15 as stated: in every query operation the predicate built from a
\* request has none of the keys database, collection, page, page_records,
\* fields, sort.
C15_NoReservedKeyAnywhere ==
    (/\ call.op \in {"search_for_name", "get_table_data", "get_uploaded_files"}
     /\ call.query_built) =>
        DOMAIN call.query
            \cap {"database", "collection", "page", "page_records", "fields",
                  "sort"} = {}

\* C15: the predicate a query operation builds has none of the control keys
\* that operation reads: database, collection, page, page_records in the
\* upload list, these and fields in the name search, these and sort in the
\* table-data search; every other key of the request with a non-empty value
\* is a filter field.
C15_NoControlKeyOfTheOperation ==
    LET control ==
            CASE call.op = "get_uploaded_files" ->
                     {"database", "collection", "page", "page_records"}
              [] call.op = "search_for_name" ->
                     {"database", "collection", "page", "page_records",
                      "fields"}
              [] call.op = "get_table_data" ->
                     {"database", "collection", "page", "page_records",
                      "fields", "sort"}
    IN  (/\ call.op \in {"search_for_name", "get_table_data",
                         "get_uploaded_files"}
         /\ call.query_built) =>
            /\ DOMAIN call.query \cap control = {}
            /\ call.op # "get_table_data" =>
                   DOMAIN call.query =
                       {k \in DOMAIN call.request \ control :
                            truthy(call.request[k])}

\* the table-data search has answered a request whose filters carry page,
\* fields and sort next to productName, with a predicate on productName alone
C15_Witness ==
    /\ call.op = "get_table_data"
    /\ call.status_code = 200
    /\ "filters" \in DOMAIN call.request
    /\ call.request["filters"].t = "dict"
    /\ {"page", "fields", "sort", "productName"}
           \subseteq DOMAIN call.request["filters"].v
    /\ DOMAIN call.query = {"productName"}

\* C16: a table-data request with a structured number predicate on a field
\* is never answered with an error, whatever its search_by is: a search_by
\* that can be coerced becomes an equality on a float when it has a decimal
\* point and on an integer otherwise, and one that cannot be coerced leaves
\* the field out of the predicate.
C16_NumberPredicateNeverFails ==
    \A k \in {"price"} :
        (/\ call.op = "get_table_data"
         /\ k \in DOMAIN call.request
         /\ call.request[k].t = "dict"
         /\ json_get(call.request[k].v, "data_type") = JName("number")
         /\ json_get(call.request[k].v, "search_by").t # "null") =>
            LET search_by == call.request[k].v["search_by"]
                pointed   == \E i \in 1..Len(search_by.v) : search_by.v[i] = "."
            IN  /\ call.status_code = 200
                /\ IF search_by.t = "int"
                   THEN k \in DOMAIN call.query
                        /\ call.query[k] = Equals(search_by)
                   ELSE IF pointed /\ float_literal(search_by.v)
                   THEN k \in DOMAIN call.query
                        /\ call.query[k].k = "eq"
                        /\ call.query[k].value.t = "float"
                        /\ call.query[k].value.v = float_value(search_by.v)
                   ELSE IF ~pointed /\ int_literal(search_by.v)
                   THEN k \in DOMAIN call.query
                        /\ call.query[k] = Equals(JInt(int_value(search_by.v)))
                   ELSE k \notin DOMAIN call.query

\* C17: a table-data request answered from the store is sorted on its sort
\* field ascending when the direction is "asc" in any letter case or any
\* string other than "desc", descending when it is "desc" in any letter
\* case; without a sort field no sort clause is applied.
C17_SortDirection ==
    (call.op = "get_table_data" /\ call.status_code = 200) =>
        LET sort_data == json_get_or(call.request, "sort", JDict(EmptyDict))
            sort_by   == json_get(sort_data.v, "sort_by")
            direction == json_get_or(sort_data.v, "direction",
                                     JStr(<<"a", "s", "c">>))
        IN  IF sort_by.t = "null"
            THEN call.sort_clause = <<>>
            ELSE /\ Len(call.sort_clause) = 1
                 /\ call.sort_clause[1].field = sort_by.v
                 /\ call.sort_clause[1].direction =
                        IF lower(direction.v) = <<"d", "e", "s", "c">>
                        THEN -1 ELSE 1

\* C18: with a string filter on productName, the documents that match the
\* predicate of the table-data search are those in which the value occurs
\* anywhere in the field, and the documents that match the predicate of the
\* name search are those whose field starts with the value, both without
\* regard to letter case.
C18_ContainsAndPrefix ==
    LET given == IF "productName" \in DOMAIN call.request
                 THEN call.request["productName"] ELSE JNull
        value == IF given.t = "dict" THEN given.v["search_by"].v ELSE given.v
        occurs_at(text, i) ==
            /\ i + Len(value) - 1 <= Len(text)
            /\ lower(SubSeq(text, i, i + Len(value) - 1)) = lower(value)
    IN  (/\ call.op \in {"search_for_name", "get_table_data"}
         /\ call.status_code = 200 /\ ~call.cache_hit
         /\ "filters" \notin DOMAIN call.request
         /\ \/ given.t = "str"
            \/ /\ call.op = "get_table_data" /\ given.t = "dict"
               /\ json_get(given.v, "data_type") = JName("text")
               /\ json_get(given.v, "search_by").t = "str") =>
            \A d \in 1..Len(table) :
                doc_matches(table[d], call.query) <=>
                    IF call.op = "get_table_data"
                    THEN \E i \in 1..(Len(table[d]["productName"].v) + 1) :
                             occurs_at(table[d]["productName"].v, i)
                    ELSE occurs_at(table[d]["productName"].v, 1)

\* C19: when the name search answers 200, it has looked into the cache
\* first; if the cache held a payload for the request, the answer is that
\* payload, no store query was made and the cache is as before; if not, the
\* store was queried and the cache now holds the answered payload under the
\* request, next to its earlier entries.
C19_CacheBeforeStore ==
    [][(call'.op = "search_for_name" /\ call'.status_code = 200) =>
          LET data == call'.request
          IN  /\ call'.cache_reads = 1
              /\ IF data \in DOMAIN cache
                 THEN /\ call'.count = cache[data].count
                      /\ call'.data = cache[data].data
                      /\ call'.store_reads = 0
                      /\ cache' = cache
                 ELSE /\ call'.store_reads >= 1
                      /\ DOMAIN cache' = DOMAIN cache \cup {data}
                      /\ cache'[data].count = call'.count
                      /\ cache'[data].data = call'.data
                      /\ \A key \in DOMAIN cache : cache'[key] = cache[key]]_vars

\* the name search has answered a request from the cache with a payload that
\* the store would no longer give, without a store query
C19_Witness ==
    /\ call.op = "search_for_name"
    /\ call.status_code = 200
    /\ call.cache_hit
    /\ call.store_reads = 0
    /\ call.request = StaleKey
    /\ call.data = StalePayload.data
    /\ call.data # response_docs(find(table, search_query(StaleKey)),
                                 NoProjection)

\* C20: an update with a well-formed identifier or match key never changes
\* the identifier of a document; when no document matches it is answered
\* not found and the store stays as it was; when a document matches it is
\* answered with success and the document carries the incoming fields.
C20_UpdateKeepsIdentifier ==
    [][
        /\ (/\ call'.op \in {"dynamic_update", "update_product"}
            /\ call'.status_code # 400
            /\ is_valid(call'.id)) =>
              LET matched == \E i \in 1..Len(products) :
                                 str_oid(products[i]["_id"]) = call'.id
              IN  /\ Len(products') = Len(products)
                  /\ \A i \in 1..Len(products) :
                         products'[i]["_id"] = products[i]["_id"]
                  /\ IF matched
                     THEN /\ call'.status_code = 200
                          /\ \A i \in 1..Len(products) :
                                 str_oid(products[i]["_id"]) = call'.id =>
                                     products'[i]["productName"]
                                         = call'.request["productName"]
                     ELSE call'.status_code = 404 /\ products' = products
        /\ (/\ call'.op = "update_column_is_active"
            /\ call'.status_code # 400) =>
              LET column_name == call'.request.v["columnName"].v
                  configured == \E i \in 1..Len(columns_config) :
                                    columns_config[i]["columnName"] = column_name
              IN  IF configured
                  THEN /\ call'.status_code = 200
                       /\ \E i \in 1..Len(columns_config) :
                              /\ columns_config'[i]["columnName"] = column_name
                              /\ columns_config'[i]["isActive"]
                                     = call'.request.v["isActive"].v
                  ELSE call'.status_code = 404
                       /\ columns_config' = columns_config
      ]_vars

\* the identifiers of the documents of a collection
ids_of(collection) == {collection[i]["_id"] : i \in 1..Len(collection)}

\* the collection a delete request works on, in the state before it
deleted_from(c) ==
    IF c.op = "dynamic_delete" THEN named_collection(c.request) ELSE products

\* C21: a delete of a well-formed identifier that is not in the collection
\* answers 404 and leaves the collections as they are; a delete of one that
\* is in it answers 200 and removes exactly the document with the identifier;
\* an identifier that the store has handed out and that is in no collection
\* never comes back, so every later delete of it answers 404
C21_DeleteOneOrNone ==
    [][
        /\ (/\ call'.op \in {"dynamic_delete", "delete_product"}
            /\ call'.status_code \in {200, 404})
           => LET oid    == ObjectId_of(call'.id)
                  before == deleted_from(call')
                  after  == IF call'.op = "dynamic_delete"
                               /\ ~names_products(call'.request)
                            THEN table' ELSE products'
              IN  IF oid \in ids_of(before)
                  THEN /\ call'.status_code = 200
                       /\ Len(after) = Len(before) - 1
                       /\ ids_of(after) = ids_of(before) \ {oid}
                  ELSE /\ call'.status_code = 404
                       /\ products' = products
                       /\ table' = table
        /\ (call'.op \in {"dynamic_delete", "delete_product"}
            /\ is_valid(call'.id) /\ call'.status_code # 400)
           => call'.status_code \in {200, 404}
        /\ \A n \in 1..(next_oid - 1) :
              /\ ObjectId(n) \notin ids_of(products) => ObjectId(n) \notin ids_of(products')
              /\ ObjectId(n) \notin ids_of(table) => ObjectId(n) \notin ids_of(table')
      ]_vars

\* a delete has removed a document and a later delete of the same identifier
\* was answered 404
C21_Witness ==
    /\ call.op \in {"dynamic_delete", "delete_product"}
    /\ call.status_code = 404
    /\ is_valid(call.id)
    /\ ObjectId_of(call.id)[2] < next_oid
    /\ ObjectId_of(call.id) \notin ids_of(products) \cup ids_of(table)

\* the fields a create request gives the document: all of its keys but the
\* two names
input_fields(data) == DOMAIN data \ {"database", "collection"}

\* the numbered entries of an insert request
input_entries(data) == {k \in input_fields(data) : numbered(k)}

\* C22: a fetch by the identifier a create has just returned answers 200 with
\* a document that has every field of the create's input with the input's
\* value and whose _id is the returned identifier
C22_CreateThenFetch ==
    [][
        /\ (/\ call'.op = "get_product"
            /\ call' # call
            /\ cr[1].pc = "done"
            /\ cr[1].status_code = 201
            /\ call'.id = str_oid(cr[1].inserted_id))
           => /\ call'.status_code = 200
              /\ call'.product["_id"] = call'.id
              /\ \A k \in input_fields(cr[1].data) :
                    /\ k \in DOMAIN call'.product
                    /\ call'.product[k] = cr[1].data[k]
        /\ (/\ call'.op = "get_product"
            /\ call.op = "dynamic_insert"
            /\ call.status_code = 201
            /\ call'.id = call.id)
           => /\ call'.status_code = 200
              /\ call'.product["_id"] = call'.id
              /\ \A k \in input_entries(call.request) :
                    LET entry == call.request[k]
                    IN  /\ entry["fieldName"] \in DOMAIN call'.product
                        /\ call'.product[entry["fieldName"]]
                               = entry["fieldValue"]
      ]_vars

\* C23: a create request with a blank or missing database or collection name
\* is answered with the client error 400
C23_BlankNameIsClientError ==
    \A c \in CreateReqs :
        (cr[c].pc = "done" /\ invalid_name(cr[c].data))
            => cr[c].status_code = 400

\* the row records of the data collection that carry the identifier
rows_of(collection, file_id) ==
    {i \in 1..Len(documents(collection)) :
        documents(collection)[i]["fileId"] = file_id}

\* C24: a delete by the fileId a finished upload returned answers 200,
\* removes the job's record and every row record with that fileId, and
\* reports how many row records there were
C24_DeleteByReturnedFileId ==
    [][
        (/\ up[1].pc = "done"
         /\ up[1].status_code = 200
         /\ call'.op = "delete_uploaded_file"
         /\ ~delete_fields_missing(call'.request)
         /\ call'.request["fileId"] = uuid_chars(up[1].file_id))
        => /\ call'.status_code = 200
           /\ up[1].file_id \notin DOMAIN file_collection'
           /\ rows_of(data_collection', up[1].file_id) = {}
           /\ call'.rowsDeleted
                  = Cardinality(rows_of(data_collection, up[1].file_id))
      ]_vars

\* C25: every row record of the data collection carries the identifier of
\* the upload's job as fileId and the number of its sheet row as rowNumber:
\* the j-th record of the i-th batch is the record of sheet row
\* batch_size * (i - 1) + j + 1
C25_RowRecordTags ==
    \A i \in 1..Len(data_collection) :
        \A j \in 1..Len(data_collection[i]) :
            /\ data_collection[i][j]["fileId"] = up[1].file_id
            /\ data_collection[i][j]["rowNumber"] = batch_size * (i - 1) + j + 1

\* a filter value that is null or empty, given bare or as search_by
value_empty(value) ==
    \/ value.t = "null"
    \/ value = JStr(<<>>)
    \/ /\ value.t = "dict"
       /\ json_get(value.v, "search_by") \in {JNull, JStr(<<>>)}

\* the request without one of its filter entries
request_without(data, key) ==
    IF "filters" \in DOMAIN data /\ data["filters"].t = "dict"
    THEN [data EXCEPT !["filters"] = JDict(without(@.v, key))]
    ELSE without(data, key)

\* C26: a table request with a filter entry whose value is null or empty
\* matches as many documents as the request without the entry, and a name
\* search leaves such an entry out of its query
C26_EmptyFilterIgnored ==
    /\ (call.op = "get_table_data" /\ call.status_code = 200)
       => \A key \in table_filter_keys(call.request) :
             value_empty(filters_of(call.request).v[key])
             => call.count
                    = count_documents(
                          table,
                          table_query(request_without(call.request, key)))
    /\ (call.op = "search_for_name" /\ call.status_code = 200
        /\ call.query_built)
       => \A key \in DOMAIN call.request \ search_reserved :
             value_empty(call.request[key]) => key \notin DOMAIN call.query

\* the department of a row is missing or empty
no_department(row) ==
    "department" \notin DOMAIN row \/ row["department"] \in {JNull, JStr(<<>>)}

\* the amount of a row is missing, or a number that is not above zero
no_amount(row) ==
    \/ "amount" \notin DOMAIN row
    \/ row["amount"] = JNull
    \/ is_number(row["amount"]) /\ row["amount"].v <= 0

\* C27: the validator never raises; it returns an error message for a row
\* whose department is missing or empty or whose amount is missing or not
\* above zero
C27_ValidatorNeverRaises ==
    call.op = "validate_excel_row"
    => /\ ~call.result.raised
       /\ (no_department(call.row) \/ no_amount(call.row))
          => call.result.value # None

\* C28: two uploads that run side by side have different job identifiers,
\* and when one of them has answered, the row records that carry its job's
\* identifier are those of the rows of its file, one per row, and its job
\* record counts exactly these rows
C28_UploadsDoNotInterfere ==
    /\ \A r1, r2 \in UploadReqs :
          (r1 # r2 /\ up[r1].pc \notin {"idle"} /\ up[r2].pc \notin {"idle"})
              => up[r1].file_id # up[r2].file_id
    /\ \A r \in UploadReqs :
          (up[r].pc = "done" /\ up[r].status_code = 200)
          => LET docs == documents(data_collection)
                 mine == rows_of(data_collection, up[r].file_id)
                 job  == file_collection[up[r].file_id]
             IN  /\ Cardinality(mine) = up[r].total
                 /\ {docs[i]["rowNumber"] : i \in mine} = 2..(up[r].total + 1)
                 /\ job.totalRows = up[r].total
                 /\ job.validRows + job.invalidRows = up[r].total

upload_answered ==
    /\ up[1].pc = "done"
    /\ up[1].status_code = 200
    /\ up[1].file_id \in DOMAIN file_collection
    /\ file_collection[up[1].file_id].status # "uploading"
    /\ job_updates[up[1].file_id] = 1

\* C30: an upload that has passed the validation of its parameters and file
\* name, and whose parser and store calls succeed, eventually makes the
\* terminal job update and answers 200; its job does not stay in status
\* uploading
C30_UploadTerminates == (up[1].pc = "insert_job") ~> upload_answered

\* the upload has answered after a stream long enough for a batch flush
C30_Witness ==
    /\ upload_answered
    /\ up[1].total > batch_size
    /\ Len(data_collection) = 2

====
